---------------------------- MODULE Spec2Model ----------------------------
(***************************************************************************)
(* A model of the analytics core of the SmartSan NYC dashboard backend:    *)
(*   - the 311 refresh handler (routes/data_refresh.py), which classifies  *)
(*     each raw complaint record and upserts it into db.requests;          *)
(*   - the PredictionService operations (services/predictions.py) and the  *)
(*     dashboard metrics handler (routes/metrics.py), which read           *)
(*     db.requests, db.collections and db.routes.                          *)
(*                                                                         *)
(* Text is modelled by TLA+ strings: lower(), strip() and the substring    *)
(* test `k in s` are computed character by character.  Fractions are       *)
(* modelled exactly, as pairs <<numerator, denominator>> of integers, so   *)
(* every comparison below is a comparison of exact rationals.              *)
(***************************************************************************)
EXTENDS Integers, Sequences, FiniteSets, Bags, TLC

VARIABLES
    api_data,      \* the records NYCOpenDataClient.get_311_requests returned
    requests,      \* db.requests: a bag of service-request documents
    collections,   \* db.collections: a bag of collection-event documents
    routes,        \* db.routes: a bag of route documents
    now,           \* datetime.utcnow(), as a day number (see MonthOfDay)
    op,            \* the operation that produced `response` ("none" at start)
    arg,           \* the arguments of that operation
    response,      \* what the operation returned
    database       \* Database._client and Database._db: set or None

vars == <<api_data, requests, collections, routes, now, op, arg, response,
          database>>

\* Database.connect succeeded: both class attributes are set.  The
\* specifications of single handlers start here, as create_app connects
\* before it serves; get_db then returns Database._db and writes nothing.
Connected == [ client |-> TRUE, db |-> TRUE ]

NoResponse == [kind |-> "none"]

-----------------------------------------------------------------------------
(* Text: str.lower(), str.strip() and the `in` substring test.             *)

UpperCase == "ABCDEFGHIJKLMNOPQRSTUVWXYZ"
LowerCase == "abcdefghijklmnopqrstuvwxyz"
Whitespace == {" ", "\t", "\n", "\r"}

LowerChar(c) ==
    IF \E i \in 1..Len(UpperCase) : SubSeq(UpperCase, i, i) = c
    THEN LET i == CHOOSE j \in 1..Len(UpperCase) : SubSeq(UpperCase, j, j) = c
         IN  SubSeq(LowerCase, i, i)
    ELSE c

RECURSIVE Lower(_)
Lower(s) ==
    IF Len(s) = 0 THEN ""
    ELSE LowerChar(SubSeq(s, 1, 1)) \o Lower(SubSeq(s, 2, Len(s)))

UpperChar(c) ==
    IF \E i \in 1..Len(LowerCase) : SubSeq(LowerCase, i, i) = c
    THEN LET i == CHOOSE j \in 1..Len(LowerCase) : SubSeq(LowerCase, j, j) = c
         IN  SubSeq(UpperCase, i, i)
    ELSE c

RECURSIVE Upper(_)
Upper(s) ==
    IF Len(s) = 0 THEN ""
    ELSE UpperChar(SubSeq(s, 1, 1)) \o Upper(SubSeq(s, 2, Len(s)))

RECURSIVE LStrip(_)
LStrip(s) ==
    IF Len(s) > 0 /\ SubSeq(s, 1, 1) \in Whitespace
    THEN LStrip(SubSeq(s, 2, Len(s)))
    ELSE s

RECURSIVE RStrip(_)
RStrip(s) ==
    IF Len(s) > 0 /\ SubSeq(s, Len(s), Len(s)) \in Whitespace
    THEN RStrip(SubSeq(s, 1, Len(s) - 1))
    ELSE s

Strip(s) == RStrip(LStrip(s))

\* `k in s` for two strings.
Contains(s, k) ==
    \E i \in 1..(Len(s) - Len(k) + 1) : SubSeq(s, i, i + Len(k) - 1) = k

\* any(word in text for word in words)
AnyIn(words, text) == \E w \in words : Contains(text, w)

-----------------------------------------------------------------------------
(* The fixed enumeration of categories.                                    *)

SANITATION_COMPLAINT_TYPES ==
    { "illegal_dumping", "missed_pickup", "overflow", "rodent",
      "dirty_condition", "trash_issue", "litter_basket", "damaged_container",
      "vendor_enforcement", "obstruction", "graffiti", "unsanitary_condition",
      "air_quality", "water_quality", "hazardous_materials", "sweeping",
      "mosquitoes", "mold", "snow", "other" }

-----------------------------------------------------------------------------
(* refresh_311_data: the ordered rule chain that maps a record to a        *)
(* category.  The chain is one if/elif cascade in the source; it is split  *)
(* here into its three consecutive segments, each returning NoMatch when   *)
(* none of its branches is taken.                                          *)

NoMatch == "<no match>"

\* The branches marked "specific DSNY complaint types first", tested on the
\* combined text.
SpecificTypeRule(combined_text) ==
    IF Contains(combined_text, "unsanitary pigeon condition")
         \/ Contains(combined_text, "unsanitary animal facility")
      THEN "unsanitary_condition"
    ELSE IF Contains(combined_text, "air quality")
      THEN "air_quality"
    ELSE IF Contains(combined_text, "unsanitary condition")
              \/ Contains(combined_text, "dirty conditions")
      THEN "dirty_condition"
    ELSE IF Contains(combined_text, "sewer")
              \/ Contains(combined_text, "water quality")
      THEN "water_quality"
    ELSE IF Contains(combined_text, "missed collection")
              \/ Contains(combined_text, "missed collection (all materials)")
      THEN "missed_pickup"
    ELSE IF Contains(combined_text, "hazardous materials")
              \/ Contains(combined_text, "lead")
      THEN "hazardous_materials"
    ELSE IF Contains(combined_text, "sweeping")
              /\ (Contains(combined_text, "inadequate")
                    \/ Contains(combined_text, "missed"))
      THEN "sweeping"
    ELSE IF Contains(combined_text, "mosquitoes")
      THEN "mosquitoes"
    ELSE IF Contains(combined_text, "mold")
      THEN "mold"
    ELSE IF Contains(combined_text, "snow")
      THEN "snow"
    ELSE NoMatch

\* (mutant) the residential-disposal branch without its 'storage area' case.
Mut_AgencyCodeRule_NoCarveOut(complaint_lower, descriptor) ==
    IF Contains(complaint_lower, "residential disposal complaint")
      THEN "trash_issue"
    ELSE IF Contains(complaint_lower, "dumpster complaint")
      THEN IF Contains(descriptor, "overflowing") THEN "overflow" ELSE "trash_issue"
    ELSE IF Contains(complaint_lower, "dead animal")
      THEN IF AnyIn({"rat", "mouse", "rodent"}, descriptor) THEN "rodent" ELSE "other"
    ELSE IF Contains(complaint_lower, "street sweeping complaint")
      THEN "sweeping"
    ELSE IF Contains(complaint_lower, "sanitation worker")
              \/ Contains(complaint_lower, "vehicle complaint")
              \/ Contains(complaint_lower, "derelict vehicle")
              \/ Contains(complaint_lower, "illegal posting")
      THEN "other"
    ELSE NoMatch

\* The branches marked "existing mappings": agency codes, tested on the
\* complaint type alone, the descriptor deciding inside a branch.
AgencyCodeRule(complaint_lower, descriptor) ==
    IF Contains(complaint_lower, "residential disposal complaint")
      THEN IF AnyIn({"not secure", "not separated", "bin not used",
                     "too early", "too late", "left in front"}, descriptor)
             THEN "trash_issue"
           ELSE IF Contains(descriptor, "storage area")
             THEN "other"
           ELSE "trash_issue"
    ELSE IF Contains(complaint_lower, "dumpster complaint")
      THEN IF Contains(descriptor, "overflowing")
             THEN "overflow"
           ELSE "trash_issue"
    ELSE IF Contains(complaint_lower, "dead animal")
      THEN IF AnyIn({"rat", "mouse", "rodent"}, descriptor)
             THEN "rodent"
           ELSE "other"
    ELSE IF Contains(complaint_lower, "street sweeping complaint")
      THEN "sweeping"
    ELSE IF Contains(complaint_lower, "sanitation worker")
              \/ Contains(complaint_lower, "vehicle complaint")
      THEN "other"
    ELSE IF Contains(complaint_lower, "derelict vehicle")
      THEN "other"
    ELSE IF Contains(complaint_lower, "illegal posting")
      THEN "other"
    ELSE NoMatch

\* The generic keyword branches, tested on the combined text.
GenericKeywordRule(combined_text) ==
    IF AnyIn({"illegal dumping", "dumping", "illegal dump", "dumped",
              "chronic dumping"}, combined_text)
      THEN "illegal_dumping"
    ELSE IF AnyIn({"missed collection", "missed pickup", "missed trash",
                   "collection missed", "pickup missed", "no pickup"},
                  combined_text)
      THEN "missed_pickup"
    ELSE IF AnyIn({"overflow", "overflowing", "over flowing", "bin full",
                   "container full", "overflowing dumpster",
                   "overflowing basket"}, combined_text)
      THEN "overflow"
    ELSE IF AnyIn({"rodent", "rat", "rats", "mouse", "mice",
                   "rodent activity", "rodent sighting"}, combined_text)
      THEN "rodent"
    ELSE IF AnyIn({"dirty condition", "sanitation condition", "unsanitary",
                   "dirty area", "filthy", "unsanitary condition"},
                  combined_text)
      THEN "dirty_condition"
    ELSE IF AnyIn({"trash", "garbage", "refuse", "waste", "debris",
                   "rubbish", "solid waste", "not secure", "not separated"},
                  combined_text)
      THEN "trash_issue"
    ELSE IF AnyIn({"litter basket", "litter", "basket", "litter bin",
                   "street basket", "replacement basket", "new basket"},
                  combined_text)
      THEN "litter_basket"
    ELSE IF AnyIn({"damaged container", "broken container",
                   "container damaged", "damaged bin", "broken bin"},
                  combined_text)
      THEN "damaged_container"
    ELSE IF AnyIn({"vendor", "enforcement", "street vendor",
                   "vendor violation", "food vendor", "non-food vendor"},
                  combined_text)
      THEN "vendor_enforcement"
    ELSE IF AnyIn({"obstruction", "blocking", "blocked", "obstructing",
                   "access blocked"}, combined_text)
      THEN "obstruction"
    ELSE IF AnyIn({"graffiti", "vandalism", "spray paint"}, combined_text)
      THEN "graffiti"
    ELSE IF AnyIn({"street condition", "sidewalk"}, combined_text)
              /\ AnyIn({"trash", "garbage", "debris", "litter"}, combined_text)
      THEN "trash_issue"
    ELSE NoMatch

\* (mutant) request_type starts unset instead of 'other'.
Mut_DefaultRequestType == "unclassified"

\* The initial value of request_type, kept when no branch is taken.
DefaultRequestType == "other"

\* (mutant) the agency-code branches moved below the generic keyword branches.
Mut_RequestTypeOf_AgencyLast(complaint_lower, descriptor, combined_text) ==
    IF SpecificTypeRule(combined_text) # NoMatch
      THEN SpecificTypeRule(combined_text)
    ELSE IF GenericKeywordRule(combined_text) # NoMatch
      THEN GenericKeywordRule(combined_text)
    ELSE IF AgencyCodeRule(complaint_lower, descriptor) # NoMatch
      THEN AgencyCodeRule(complaint_lower, descriptor)
    ELSE DefaultRequestType

\* (mutant) the generic keyword branches moved to the top of the cascade.
Mut_RequestTypeOf_GenericFirst(complaint_lower, descriptor, combined_text) ==
    IF GenericKeywordRule(combined_text) # NoMatch
      THEN GenericKeywordRule(combined_text)
    ELSE IF SpecificTypeRule(combined_text) # NoMatch
      THEN SpecificTypeRule(combined_text)
    ELSE IF AgencyCodeRule(complaint_lower, descriptor) # NoMatch
      THEN AgencyCodeRule(complaint_lower, descriptor)
    ELSE DefaultRequestType

\* The whole cascade, in source order.
RequestTypeOf(complaint_lower, descriptor, combined_text) ==
    IF SpecificTypeRule(combined_text) # NoMatch
      THEN SpecificTypeRule(combined_text)
    ELSE IF AgencyCodeRule(complaint_lower, descriptor) # NoMatch
      THEN AgencyCodeRule(complaint_lower, descriptor)
    ELSE IF GenericKeywordRule(combined_text) # NoMatch
      THEN GenericKeywordRule(combined_text)
    ELSE DefaultRequestType

HighPriorityTypes ==
    { "illegal_dumping", "rodent", "overflow", "hazardous_materials", "mold",
      "air_quality", "water_quality" }

\* priority: 'normal', raised to 'high' by the category, then to 'urgent' by
\* the two keyword tests.
PriorityOf(request_type, complaint_lower, descriptor) ==
    IF Contains(complaint_lower, "urgent") \/ Contains(descriptor, "emergency")
      THEN "urgent"
    ELSE IF request_type \in HighPriorityTypes
      THEN "high"
    ELSE "normal"

\* The three texts the cascade reads.  record.complaint_type and
\* record.descriptor are strings (a missing or None field is read as '').
ComplaintType(record)  == Strip(record.complaint_type)
ComplaintLower(record) == Lower(ComplaintType(record))
DescriptorLower(record) == Lower(record.descriptor)
CombinedText(record) ==
    Lower(ComplaintLower(record) \o " " \o DescriptorLower(record))

-----------------------------------------------------------------------------
(* Time.  A datetime is a day number; every year has 365 days and day 0 is *)
(* the 1 January 2000.  reported_at >= cutoff compares day numbers.        *)

MonthStarts == <<0, 31, 59, 90, 120, 151, 181, 212, 243, 273, 304, 334>>

\* datetime.month
MonthOfDay(day) == Cardinality({ m \in 1..12 : MonthStarts[m] <= day % 365 })

\* $dayOfWeek
DayOfWeek(day) == (day % 7) + 1

DaysInMonth == <<31, 28, 31, 30, 31, 30, 31, 31, 30, 31, 30, 31>>

\* datetime(year, month, day) as a day number
DayNumber(year, month, day) == (year - 2000) * 365 + MonthStarts[month] + day - 1

-----------------------------------------------------------------------------
(* Parsing of the text fields of an API record.                            *)

\* dict.get(field, default)
Get(doc, field, default) == IF field \in DOMAIN doc THEN doc[field] ELSE default

Digits == "0123456789"

IsDigit(c) == \E i \in 1..10 : SubSeq(Digits, i, i) = c

DigitValue(c) == (CHOOSE i \in 1..10 : SubSeq(Digits, i, i) = c) - 1

IsDigits(s) == Len(s) > 0 /\ \A i \in 1..Len(s) : IsDigit(SubSeq(s, i, i))

RECURSIVE DigitsValue(_)
\* int(s) for a string of digits
DigitsValue(s) ==
    IF Len(s) = 0 THEN 0
    ELSE 10 * DigitsValue(SubSeq(s, 1, Len(s) - 1))
           + DigitValue(SubSeq(s, Len(s), Len(s)))

RECURSIVE Replace(_, _, _)
\* s.replace(old, new), old not empty
Replace(s, old, new) ==
    IF Len(s) < Len(old) THEN s
    ELSE IF SubSeq(s, 1, Len(old)) = old
      THEN new \o Replace(SubSeq(s, Len(old) + 1, Len(s)), old, new)
    ELSE SubSeq(s, 1, 1) \o Replace(SubSeq(s, 2, Len(s)), old, new)

\* s has the shape of the pattern: a digit where the pattern has 'd', the
\* pattern's character elsewhere
Matches(s, pattern) ==
    /\ Len(s) = Len(pattern)
    /\ \A i \in 1..Len(s) :
         IF SubSeq(pattern, i, i) = "d" THEN IsDigit(SubSeq(s, i, i))
         ELSE SubSeq(s, i, i) = SubSeq(pattern, i, i)

\* The formats datetime.fromisoformat accepts among those the API sends: a
\* date, optionally followed by a time with 0, 3 or 6 fractional digits and
\* by a UTC offset.
IsoPatterns ==
    LET dates == { "dddd-dd-dd" }
        times == { "Tdd:dd:dd", "Tdd:dd:dd.ddd", "Tdd:dd:dd.dddddd" }
        zones == { "", "+dd:dd" }
    IN  dates \cup { d \o t \o z : d \in dates, t \in times, z \in zones }

\* datetime.fromisoformat(iso) as a day number; ingestion_day where it raises
IsoDay(iso, ingestion_day) ==
    LET field(a, b) == DigitsValue(SubSeq(iso, a, b))
        time_ok == Len(iso) = 10
                     \/ (field(12, 13) < 24 /\ field(15, 16) < 60
                           /\ field(18, 19) < 60)
    IN  IF /\ \E pattern \in IsoPatterns : Matches(iso, pattern)
           /\ field(1, 4) >= 1 /\ field(6, 7) \in 1..12
           /\ field(9, 10) >= 1 /\ field(9, 10) <= DaysInMonth[field(6, 7)]
           /\ time_ok
          THEN DayNumber(field(1, 4), field(6, 7), field(9, 10))
        ELSE ingestion_day

\* (mutant) a created_date that does not parse is taken for day 0.
Mut_CreatedDay_EpochOnFailure(text, ingestion_day) ==
    IF IsoDay(Replace(text, "Z", "+00:00"), -1) = -1 THEN 0
    ELSE IsoDay(Replace(text, "Z", "+00:00"), ingestion_day)

\* datetime.fromisoformat(created_date.replace('Z', '+00:00')), as a day
\* number; ingestion_day where it raises
CreatedDay(text, ingestion_day) ==
    IsoDay(Replace(text, "Z", "+00:00"), ingestion_day)

-----------------------------------------------------------------------------
(* Arithmetic.  Python computes the quantities below in binary floating    *)
(* point; here a fraction is the exact rational <<n, d>>, d > 0, in lowest *)
(* terms, and int() and round() act on that exact value.                   *)

Abs(x) == IF x < 0 THEN -x ELSE x

RECURSIVE GCD(_, _)
GCD(a, b) == IF b = 0 THEN a ELSE GCD(b, a % b)

\* n / d
Rat(n, d) == LET g == GCD(Abs(n), d) IN <<n \div g, d \div g>>

FromInt(i) == <<i, 1>>
RatAdd(a, b) == Rat(a[1] * b[2] + b[1] * a[2], a[2] * b[2])
RatMul(a, b) == Rat(a[1] * b[1], a[2] * b[2])
RatLE(a, b) == a[1] * b[2] <= b[1] * a[2]
RatLT(a, b) == a[1] * b[2] < b[1] * a[2]
RatMax(a, b) == IF RatLE(a, b) THEN b ELSE a
RatMin(a, b) == IF RatLE(a, b) THEN a ELSE b

RECURSIVE RatSumOver(_, _)
\* sum(f[x] for x in S), f[x] rational
RatSumOver(f, S) ==
    IF S = {} THEN FromInt(0)
    ELSE LET x == CHOOSE y \in S : TRUE
         IN  RatAdd(f[x], RatSumOver(f, S \ {x}))

\* int(x): truncation toward zero.
IntOf(a) == IF a[1] >= 0 THEN a[1] \div a[2] ELSE -((-a[1]) \div a[2])

\* round(x, digits) for x >= 0, a tie going to the even neighbour; scale is
\* 10^digits.
RoundTo(a, scale) ==
    LET num  == a[1] * scale
        q    == num \div a[2]
        rem2 == 2 * (num % a[2])
        up   == rem2 > a[2] \/ (rem2 = a[2] /\ q % 2 = 1)
    IN  Rat(IF up THEN q + 1 ELSE q, scale)

-----------------------------------------------------------------------------
(* The store.  A collection is a bag of documents: documents that agree on *)
(* every field are counted together.                                       *)

RECURSIVE SumCopies(_, _)
\* the number of documents of bag B that lie in the set S
SumCopies(B, S) ==
    IF S = {} THEN 0
    ELSE LET d == CHOOSE x \in S : TRUE
         IN  CopiesIn(d, B) + SumCopies(B, S \ {d})

RECURSIVE SumOver(_, _)
\* sum(f[x] for x in S)
SumOver(f, S) ==
    IF S = {} THEN 0
    ELSE LET x == CHOOSE y \in S : TRUE
         IN  f[x] + SumOver(f, S \ {x})

RECURSIVE SortAscending(_)
\* a set of integers as an increasing sequence ($sort: {'_id.date': 1})
SortAscending(S) ==
    IF S = {} THEN <<>>
    ELSE LET m == CHOOSE x \in S : \A y \in S : x <= y
         IN  <<m>> \o SortAscending(S \ {m})

RECURSIVE SortDescendingBy(_, _)
\* sorted(S, key=key, reverse=True); the order of equal keys is one of the
\* orders the store may deliver.
SortDescendingBy(S, key) ==
    IF S = {} THEN <<>>
    ELSE LET m == CHOOSE x \in S : \A y \in S : key[y] <= key[x]
         IN  <<m>> \o SortDescendingBy(S \ {m}, key)

\* The elements of a sequence.
Range(seq) == { seq[i] : i \in 1..Len(seq) }

\* list[:n]
Take(seq, n) == SubSeq(seq, 1, IF Len(seq) < n THEN Len(seq) ELSE n)

\* db.zones, which no operation of the model writes: zone_id -> borough
ZoneBoroughs == [ z \in {"BK-AGG", "QN-AGG"} |->
                    IF z = "BK-AGG" THEN "Brooklyn" ELSE "Queens" ]

NoCell == "none"

\* A service-request document, by the fields the analytics read.  cell is the
\* pair of coordinates rounded to 3 decimals, NoCell without
\* location.coordinates.
RequestDoc(borough, day, request_type, priority, cell, zone_id) ==
    [ borough |-> borough, day |-> day, request_type |-> request_type,
      priority |-> priority, cell |-> cell, zone_id |-> zone_id ]

CollectionDoc(zone_id, day, status, waste_type, tonnage) ==
    [ zone_id |-> zone_id, day |-> day, status |-> status,
      waste_type |-> waste_type, tonnage |-> tonnage ]

RouteDoc(zone_id, status, minutes) ==
    [ zone_id |-> zone_id, status |-> status,
      estimated_duration_minutes |-> minutes ]

-----------------------------------------------------------------------------
(* refresh_tonnage_data: POST /refresh-tonnage.  A record of the DSNY       *)
(* dataset is a function from field names to text.                         *)

RECURSIVE Pow10(_)
Pow10(n) == IF n = 0 THEN 1 ELSE 10 * Pow10(n - 1)

\* The position of the first occurrence of k in s, 0 if there is none.
IndexOf(s, k) ==
    LET at == { i \in 1..(Len(s) - Len(k) + 1) : SubSeq(s, i, i + Len(k) - 1) = k }
    IN  IF at = {} THEN 0 ELSE CHOOSE i \in at : \A j \in at : i <= j

\* float() of a text without sign: digits and at most one decimal point, at
\* position dot (0 without one), with a digit on one side of it at least;
\* ok is FALSE where float() raises.
ParseUnsigned(body, dot, negative) ==
    LET whole == IF dot = 0 THEN body ELSE SubSeq(body, 1, dot - 1)
        frac == IF dot = 0 THEN "" ELSE SubSeq(body, dot + 1, Len(body))
    IN  IF /\ Len(whole) + Len(frac) > 0
           /\ (Len(whole) = 0 \/ IsDigits(whole))
           /\ (Len(frac) = 0 \/ IsDigits(frac))
          THEN [ ok |-> TRUE,
                 value |-> Rat((IF negative THEN -1 ELSE 1)
                                 * (DigitsValue(whole) * Pow10(Len(frac))
                                      + DigitsValue(frac)),
                               Pow10(Len(frac))) ]
        ELSE [ ok |-> FALSE, value |-> FromInt(0) ]

\* float() of a text that may begin with a sign
ParseSigned(t, body) ==
    ParseUnsigned(body, IndexOf(body, "."), Len(t) > 0 /\ SubSeq(t, 1, 1) = "-")

Unsigned(t) ==
    IF Len(t) > 0 /\ SubSeq(t, 1, 1) \in {"-", "+"} THEN SubSeq(t, 2, Len(t))
    ELSE t

\* float(str(value).replace(',', ''))
ParseFloat(text) ==
    ParseSigned(Replace(text, ",", ""), Unsigned(Replace(text, ",", "")))

\* datetime(int(year), int(month), 1) of the two parts of the month text
MonthOfParts(year, month, ingestion_day) ==
    IF /\ IsDigits(year) /\ IsDigits(month)
       /\ DigitsValue(year) >= 1 /\ DigitsValue(year) <= 9999
       /\ DigitsValue(month) \in 1..12
      THEN DayNumber(DigitsValue(year), DigitsValue(month), 1)
    ELSE ingestion_day

MonthSplitAt(month_str, at, ingestion_day) ==
    IF at = 0 THEN ingestion_day
    ELSE MonthOfParts(Strip(SubSeq(month_str, 1, at - 1)),
                      Strip(SubSeq(month_str, at + 3, Len(month_str))),
                      ingestion_day)

\* The parsed month ("2025 / 10") as the day number of its first day;
\* ingestion_day without ' / ' or where split, int() or datetime() raise.
MonthDay(month_str, ingestion_day) ==
    MonthSplitAt(month_str, IndexOf(month_str, " / "), ingestion_day)

\* Python's None
None == "None"

\* None in the place of a number (numbers are pairs here)
NoNumber == <<>>

\* float(text) of a coordinate
Coordinate(text) == ParseSigned(text, Unsigned(text))

WithinRange(value, low, high) ==
    RatLE(FromInt(low), value) /\ RatLE(value, FromInt(high))

\* (mutant) the longitude is not tested against its range.
Mut_ValidCoordinates_LatitudeOnly(latitude, longitude) ==
    /\ latitude # "" /\ longitude # ""
    /\ Coordinate(latitude).ok /\ Coordinate(longitude).ok
    /\ WithinRange(Coordinate(latitude).value, -90, 90)

\* lat and lng are both given, both parse, and both are in range
ValidCoordinates(latitude, longitude) ==
    /\ latitude # "" /\ longitude # ""
    /\ Coordinate(latitude).ok /\ Coordinate(longitude).ok
    /\ WithinRange(Coordinate(latitude).value, -90, 90)
    /\ WithinRange(Coordinate(longitude).value, -180, 180)

\* has_coords
HasCoords(record) ==
    /\ "latitude" \in DOMAIN record /\ "longitude" \in DOMAIN record
    /\ ValidCoordinates(record.latitude, record.longitude)

GeoPoint(lat, lng) ==
    [ type |-> "Point", coordinates |-> << lng, lat >>, lat |-> lat, lng |-> lng ]

\* location with the text of the record's field under key, when the record
\* has a text there
WithText(location, key, record, field) ==
    IF Get(record, field, "") # ""
      THEN [ k \in DOMAIN location \cup {key} |->
               IF k = key THEN record[field] ELSE location[k] ]
    ELSE location

\* The location built by the conversion loop.
RecordLocation(record) ==
    WithText(
      WithText(
        WithText(
          IF HasCoords(record)
            THEN IF "incident_address" \in DOMAIN record
                   THEN [ k \in {"type", "coordinates", "lat", "lng", "address"} |->
                            IF k = "address" THEN record.incident_address
                            ELSE GeoPoint(Coordinate(record.latitude).value,
                                          Coordinate(record.longitude).value)[k] ]
                 ELSE GeoPoint(Coordinate(record.latitude).value,
                               Coordinate(record.longitude).value)
          ELSE WithText([ lat |-> NoNumber, lng |-> NoNumber ], "address", record,
                        "incident_address"),
          "zip", record, "incident_zip"),
        "borough", record, "borough"),
      "city", record, "city")

\* ServiceRequest.create_request: a location with lat and lng that are not
\* None and without coordinates is turned into a GeoJSON point.
CreateRequestLocation(location) ==
    IF /\ "coordinates" \notin DOMAIN location
       /\ "lat" \in DOMAIN location /\ "lng" \in DOMAIN location
       /\ location.lat # NoNumber /\ location.lng # NoNumber
      THEN [ k \in {"type", "coordinates", "address", "lat", "lng"} |->
               IF k = "address" THEN Get(location, "address", None)
               ELSE GeoPoint(location.lat, location.lng)[k] ]
    ELSE location

\* One pass of the conversion loop: the request document built from a record.
ConvertRecord(record) ==
    LET request_type == RequestTypeOf(ComplaintLower(record),
                                      DescriptorLower(record),
                                      CombinedText(record))
    IN  [ request_id     |-> "SR-API-" \o record.unique_key,
          request_type   |-> request_type,
          priority       |-> PriorityOf(request_type, ComplaintLower(record),
                                        DescriptorLower(record)),
          complaint_type |-> ComplaintType(record),
          descriptor     |-> record.descriptor,
          location       |-> CreateRequestLocation(RecordLocation(record)),
          day            |-> IF "created_date" \in DOMAIN record
                               THEN CreatedDay(record.created_date, now)
                             ELSE now ]

\* bulk_write of UpdateOne({'request_id': id}, {'$set': doc}, upsert=True):
\* a stored document with that request_id is replaced, else doc is inserted.
UpsertRequest(store, doc) ==
    LET same == { d \in BagToSet(store) : d.request_id = doc.request_id }
    IN  IF same = {}
          THEN store (+) SetToBag({doc})
        ELSE LET old == CHOOSE d \in same : TRUE
             IN  (store (-) SetToBag({old})) (+) SetToBag({doc})

\* The size of a bulk_write batch (500 in the source).
batch_size == 2

NumBatches(docs) == (Len(docs) + batch_size - 1) \div batch_size

\* requests[i:i + batch_size] for the batch with number k, from 1
Batch(docs, k) ==
    SubSeq(docs, (k - 1) * batch_size + 1,
           IF k * batch_size < Len(docs) THEN k * batch_size ELSE Len(docs))

\* What bulk_write(operations, ordered=False) does with a batch: it returns,
\* or it raises after it has applied the operations at some of the
\* positions of the batch.
Succeeded == [ ok |-> TRUE, applied |-> 1..batch_size ]

BatchOutcomes ==
    { Succeeded }
      \cup { [ ok |-> FALSE, applied |-> S ] : S \in SUBSET (1..batch_size) }

\* The operations of the batch that were applied, in order.
AppliedOf(batch, outcome) ==
    SelectSeq([ i \in 1..Len(batch) |-> [ at |-> i, doc |-> batch[i] ] ],
              LAMBDA o : o.at \in outcome.applied)

RECURSIVE UpsertApplied(_, _)
UpsertApplied(store, operations) ==
    IF operations = <<>> THEN store
    ELSE UpsertApplied(UpsertRequest(store, Head(operations).doc),
                       Tail(operations))

RECURSIVE Mut_WriteBatches_StopAtFailure(_, _, _, _)
\* (mutant) the first failing batch ends the loop.
Mut_WriteBatches_StopAtFailure(store, docs, outcomes, k) ==
    IF k > NumBatches(docs) THEN store
    ELSE IF ~outcomes[k].ok
      THEN UpsertApplied(store, AppliedOf(Batch(docs, k), outcomes[k]))
    ELSE Mut_WriteBatches_StopAtFailure(
           UpsertApplied(store, AppliedOf(Batch(docs, k), outcomes[k])),
           docs, outcomes, k + 1)

RECURSIVE WriteBatches(_, _, _, _)
\* The loop over the batches from batch k: a batch that raises is logged
\* and the loop continues with the next.
WriteBatches(store, docs, outcomes, k) ==
    IF k > NumBatches(docs) THEN store
    ELSE WriteBatches(
           UpsertApplied(store, AppliedOf(Batch(docs, k), outcomes[k])),
           docs, outcomes, k + 1)

RECURSIVE CountWritten(_, _, _)
\* inserted: upserted_count + modified_count of the batches that returned.
\* Every operation of such a batch upserts a document or modifies the one
\* it matches (created_at and updated_at are set to the time of the call).
CountWritten(docs, outcomes, k) ==
    IF k > NumBatches(docs) THEN 0
    ELSE (IF outcomes[k].ok THEN Len(Batch(docs, k)) ELSE 0)
           + CountWritten(docs, outcomes, k + 1)

\* POST /refresh-311 with the converted documents and the outcome of each
\* bulk_write.
WriteRequests(docs, outcomes) ==
    /\ op = "none"
    /\ requests' = WriteBatches(requests, docs, outcomes, 1)
    /\ response' =
         IF docs = <<>>
           THEN [kind |-> "refresh", status |-> "success",
                 records_fetched |-> 0]
         ELSE [kind |-> "refresh", status |-> "success",
               records_fetched |-> Len(docs),
               records_inserted |-> CountWritten(docs, outcomes, 1)]
    /\ op' = "refresh_311"
    /\ arg' = [ failed |-> { k \in DOMAIN outcomes : ~outcomes[k].ok } ]
    /\ UNCHANGED <<api_data, collections, routes, now, database>>

ConvertAll(records) == [i \in 1..Len(records) |-> ConvertRecord(records[i])]

\* POST /refresh-311, the whole handler, with a database that accepts every
\* batch: convert every fetched record, then upsert the documents.
Refresh311 ==
    WriteRequests(ConvertAll(api_data),
                  [k \in 1..NumBatches(api_data) |-> Succeeded])

collected_fields ==
    { "refusetonscollected", "papertonscollected", "mgptonscollected",
      "resorganicstons", "schoolorganictons", "leavestonscollected",
      "otherorganicstons" }

UncollectedKeywords ==
    { "notcollected", "uncollected", "missed", "not_collected", "un_collected" }

\* The sum of the fields of `names` that are not empty and parse.
TonsOf(record, names) ==
    LET usable == { f \in names \cap DOMAIN record :
                      record[f] # "" /\ ParseFloat(record[f]).ok }
    IN  RatSumOver([f \in usable |-> ParseFloat(record[f]).value], usable)

CollectedTonnage(record) == TonsOf(record, collected_fields)

\* The fields whose name tells of uncollected tonnage, and their sum.
ExplicitUncollected(record) ==
    TonsOf(record, { f \in DOMAIN record : AnyIn(UncollectedKeywords, Lower(f)) })

\* The first field named like a total that parses (one such field at most in
\* the records of the model), 0 without one.
TotalTonnage(record) ==
    LET named == { f \in DOMAIN record :
                     /\ Contains(Lower(f), "total") /\ Contains(Lower(f), "ton")
                     /\ ~Contains(Lower(f), "collected")
                     /\ ParseFloat(record[f]).ok }
    IN  IF named = {} THEN FromInt(0)
        ELSE ParseFloat(record[CHOOSE f \in named : TRUE]).value

\* (mutant) the difference to the total is added to the named fields.
Mut_DerivedUncollected_AddsBoth(explicit, collected, total) ==
    IF RatLT(FromInt(0), total) /\ RatLT(FromInt(0), collected)
      THEN RatAdd(explicit,
                  RatMax(FromInt(0), RatAdd(total, RatMul(FromInt(-1), collected))))
    ELSE explicit

\* uncollected = max(0, total - collected) when only a total is given
DerivedUncollected(explicit, collected, total) ==
    IF /\ RatLT(FromInt(0), total) /\ RatLT(FromInt(0), collected)
       /\ explicit = FromInt(0)
      THEN RatMax(FromInt(0), RatAdd(total, RatMul(FromInt(-1), collected)))
    ELSE explicit

UncollectedTonnage(record) ==
    DerivedUncollected(ExplicitUncollected(record), CollectedTonnage(record),
                       TotalTonnage(record))

\* str(record).lower() holds the keyword
RecordMentions(record, keyword) ==
    \E f \in DOMAIN record :
      Contains(Lower(f), keyword) \/ Contains(Lower(record[f]), keyword)

WasteType(record) ==
    IF RecordMentions(record, "paper") THEN "recycling"
    ELSE IF RecordMentions(record, "organic") THEN "organic"
    ELSE "residential"

\* zone_id: the zone db.zones has for the borough, else built from its name
TonnageZone(borough) ==
    IF \E z \in DOMAIN ZoneBoroughs : ZoneBoroughs[z] = borough
      THEN CHOOSE z \in DOMAIN ZoneBoroughs : ZoneBoroughs[z] = borough
    ELSE Upper(SubSeq(borough, 1, IF Len(borough) < 3 THEN Len(borough) ELSE 3))
           \o "-AGG"

\* CollectionEvent.create_event with the route id of the record
TonnageEvent(month_str, borough, idx, label, waste_type, tonnage, status) ==
    [ route_id |-> "RT-TONNAGE-" \o Replace(month_str, " / ", "-") \o "-"
                     \o label \o "-" \o SubSeq(Digits, idx + 1, idx + 1),
      zone_id |-> TonnageZone(borough),
      day |-> MonthDay(month_str, now),
      waste_type |-> waste_type,
      tonnage |-> RoundTo(tonnage, 100),
      status |-> status,
      borough |-> borough ]

\* None when collected and uncollected tonnage are both 0, else one event
\* for a collected tonnage > 0 and one for an uncollected tonnage > 0.
EventsFor(record, idx, collected, uncollected, waste_type) ==
    IF collected = FromInt(0) /\ uncollected = FromInt(0) THEN <<>>
    ELSE (IF RatLT(FromInt(0), collected)
            THEN << TonnageEvent(Get(record, "month", ""),
                                 Get(record, "borough", "Unknown"), idx,
                                 "COLLECTED", waste_type, collected,
                                 "completed") >>
          ELSE <<>>)
           \o (IF RatLT(FromInt(0), uncollected)
                 THEN << TonnageEvent(Get(record, "month", ""),
                                      Get(record, "borough", "Unknown"), idx,
                                      "UNCOLLECTED", waste_type, uncollected,
                                      "missed") >>
               ELSE <<>>)

\* The collection events of the record at position idx (from 0).
TonnageEvents(record, idx) ==
    EventsFor(record, idx, CollectedTonnage(record), UncollectedTonnage(record),
              WasteType(record))

\* replace_one({route_id, zone_id, collection_date}, coll, upsert=True)
UpsertCollection(store, coll) ==
    LET same == { c \in BagToSet(store) :
                    /\ Get(c, "route_id", "") = coll.route_id
                    /\ c.zone_id = coll.zone_id
                    /\ c.day = coll.day }
    IN  IF same = {}
          THEN store (+) SetToBag({coll})
        ELSE LET old == CHOOSE c \in same : TRUE
             IN  (store (-) SetToBag({old})) (+) SetToBag({coll})

RECURSIVE UpsertCollections(_, _)
UpsertCollections(store, colls) ==
    IF colls = <<>> THEN store
    ELSE UpsertCollections(UpsertCollection(store, Head(colls)), Tail(colls))

RECURSIVE AllTonnageEvents(_, _)
\* the events of records[idx+1..], in order
AllTonnageEvents(records, idx) ==
    IF idx >= Len(records) THEN <<>>
    ELSE TonnageEvents(records[idx + 1], idx) \o AllTonnageEvents(records, idx + 1)

\* POST /refresh-tonnage, the whole handler.
RefreshTonnage ==
    /\ op = "none"
    /\ LET colls == AllTonnageEvents(api_data, 0)
       IN  /\ collections' = UpsertCollections(collections, colls)
           /\ response' =
                IF api_data = <<>>
                  THEN [kind |-> "refresh", status |-> "success",
                        records_fetched |-> 0]
                ELSE [kind |-> "refresh", status |-> "success",
                      records_fetched |-> Len(api_data),
                      records_inserted |-> Len(colls)]
    /\ op' = "refresh_tonnage"
    /\ UNCHANGED <<api_data, requests, routes, now, arg, database>>

-----------------------------------------------------------------------------
(* PredictionService.predict_hotspots                                      *)

\* $match: last 90 days, with coordinates
HotspotMatched ==
    { d \in BagToSet(requests) : d.day >= now - 90 /\ d.cell # NoCell }

\* the two $group stages and the $match on total_requests, per cell
HotspotPatterns ==
    LET cells == { d.cell : d \in HotspotMatched }
        pattern(c) ==
          LET docs == { d \in HotspotMatched : d.cell = c }
          IN  [ cell |-> c,
                total_requests |-> SumCopies(requests, docs),
                days_active |-> Cardinality({ DayOfWeek(d.day) : d \in docs }) ]
        all == { pattern(c) : c \in cells }
        kept == { p \in all : p.total_requests >= 3 }
    IN  Take(SortDescendingBy(kept, [p \in kept |-> p.total_requests]), 20)

\* confidence = min(100, (days_active / 13) * 100), rounded to 1 decimal
HotspotConfidence(days_active) ==
    RoundTo(RatMin(FromInt(100), Rat(days_active * 100, 13)), 10)

\* the fixed winter / summer factors
GeneralSeasonalFactor(month) ==
    IF month \in {12, 1, 2} THEN Rat(11, 10)
    ELSE IF month \in {6, 7, 8} THEN Rat(115, 100)
    ELSE FromInt(1)

\* predicted_requests, before and after the seasonal weighting
HotspotPredictedRequests(total_requests, days_ahead, month) ==
    LET base == IntOf(Rat(total_requests * days_ahead, 90))
    IN  IntOf(RatMul(FromInt(base), GeneralSeasonalFactor(month)))

PredictHotspotsResult(days_ahead) ==
    LET patterns == HotspotPatterns
        pred(i) ==
          [ location |-> patterns[i].cell,
            predicted_requests |->
              HotspotPredictedRequests(patterns[i].total_requests, days_ahead,
                                       MonthOfDay(now)),
            confidence |-> HotspotConfidence(patterns[i].days_active),
            days_ahead |-> days_ahead ]
        preds == { pred(i) : i \in 1..Len(patterns) }
    IN  [ kind |-> "hotspots",
          predictions |->
            SortDescendingBy(preds, [p \in preds |-> p.predicted_requests]) ]

-----------------------------------------------------------------------------
(* PredictionService.predict_tonnage_forecast                              *)

WasteTypeOf(c) == Get(c, "waste_type", "residential")

TonnageForecastResult(zone_id, days_ahead) ==
    LET matched == { c \in BagToSet(collections) :
                       /\ c.zone_id = zone_id
                       /\ c.day >= now - 60
                       /\ c.status = "completed" }
        waste_types == { WasteTypeOf(c) : c \in matched }
        of(w) == { c \in matched : WasteTypeOf(c) = w }
        samples(w) == SumCopies(collections, of(w))
        tons(w) == SumOver([c \in of(w) |->
                              CopiesIn(c, collections) * Get(c, "tonnage", 0)],
                           of(w))
        avg_daily(w) == Rat(tons(w), samples(w))
        predicted(w) == RatMul(avg_daily(w), FromInt(days_ahead))
        total_samples == SumCopies(collections, matched)
        total_predicted == RatSumOver([w \in waste_types |-> predicted(w)],
                                      waste_types)
    IN  IF matched = {}
          THEN [ kind |-> "tonnage_forecast", zone_id |-> zone_id,
                 error |-> "Insufficient historical data" ]
        ELSE [ kind |-> "tonnage_forecast", zone_id |-> zone_id,
               forecast_days |-> days_ahead,
               predictions |->
                 [ w \in waste_types |->
                     [ predicted_tonnage |-> RoundTo(predicted(w), 100),
                       avg_daily_tonnage |-> RoundTo(avg_daily(w), 100),
                       historical_samples |-> samples(w) ] ],
               total_predicted_tonnage |-> RoundTo(total_predicted, 100),
               confidence |->
                 RatMin(FromInt(100),
                        Rat(total_samples * 100, 60 * Cardinality(waste_types))) ]

-----------------------------------------------------------------------------
(* PredictionService.predict_route_optimization                            *)

\* The stores drawn hold fewer than 10 routes, so .limit(10) keeps them all.
RouteOptimizationResult(zone_id) ==
    LET matched == { r \in BagToSet(routes) :
                       r.zone_id = zone_id
                         /\ r.status \in {"completed", "in_progress"} }
        n == SumCopies(routes, matched)
        minutes == SumOver([r \in matched |->
                              CopiesIn(r, routes)
                                * Get(r, "estimated_duration_minutes", 240)],
                           matched)
        avg_time == Rat(minutes, n)
        optimized_time == RatMul(avg_time, Rat(85, 100))
        time_saved == RatAdd(avg_time, RatMul(FromInt(-1), optimized_time))
    IN  IF matched = {}
          THEN [ kind |-> "route_optimization", zone_id |-> zone_id,
                 error |-> "No route data available" ]
        ELSE [ kind |-> "route_optimization", zone_id |-> zone_id,
               current_avg_time_minutes |-> RoundTo(avg_time, 10),
               optimized_time_minutes |-> RoundTo(optimized_time, 10),
               time_saved_minutes |-> RoundTo(time_saved, 10),
               based_on_routes |-> n ]

-----------------------------------------------------------------------------
(* PredictionService.predict_complaint_types                               *)

\* seasonal_patterns
SeasonalPatterns ==
    [ snow        |-> [peak_months |-> {12, 1, 2},  factor |-> Rat(30, 10)],
      mosquitoes  |-> [peak_months |-> {6, 7, 8},   factor |-> Rat(25, 10)],
      mold        |-> [peak_months |-> {3, 4, 5},   factor |-> Rat(20, 10)],
      air_quality |-> [peak_months |-> {6, 7, 8},   factor |-> Rat(18, 10)],
      overflow    |-> [peak_months |-> {11, 12},    factor |-> Rat(15, 10)],
      rodent      |-> [peak_months |-> {9, 10, 11}, factor |-> Rat(13, 10)] ]

\* (mutant) the reduced factor applied when the target month is a peak month.
Mut_SeasonalFactor(complaint_type, current_month, target_month) ==
    IF complaint_type \in DOMAIN SeasonalPatterns
      THEN LET pattern == SeasonalPatterns[complaint_type]
           IN  IF current_month \in pattern.peak_months
                 THEN RatMul(pattern.factor, Rat(8, 10))
               ELSE IF target_month \in pattern.peak_months
                 THEN pattern.factor
               ELSE FromInt(1)
    ELSE FromInt(1)

SeasonalFactor(complaint_type, current_month, target_month) ==
    IF complaint_type \in DOMAIN SeasonalPatterns
      THEN LET pattern == SeasonalPatterns[complaint_type]
           IN  IF target_month \in pattern.peak_months
                 THEN pattern.factor
               ELSE IF current_month \in pattern.peak_months
                 THEN RatMul(pattern.factor, Rat(8, 10))
               ELSE FromInt(1)
    ELSE FromInt(1)

\* predicted_count = int(current_month_avg * seasonal_factor * (days_ahead / 30))
PredictedCount(current_month_avg, seasonal_factor, days_ahead) ==
    IntOf(RatMul(RatMul(current_month_avg, seasonal_factor), Rat(days_ahead, 30)))

\* (mutant) the label 'increasing' from a factor of 1.3 on.
Mut_SeasonalTrend_FromThreshold(seasonal_factor) ==
    IF RatLE(Rat(13, 10), seasonal_factor) THEN "increasing"
    ELSE IF RatLT(seasonal_factor, Rat(8, 10)) THEN "decreasing"
    ELSE "stable"

\* trend: 'increasing' above 1.3, 'decreasing' below 0.8, else 'stable'
SeasonalTrend(seasonal_factor) ==
    IF RatLT(Rat(13, 10), seasonal_factor) THEN "increasing"
    ELSE IF RatLT(seasonal_factor, Rat(8, 10)) THEN "decreasing"
    ELSE "stable"

\* confidence = min(100, (total / 100) * 100)
ComplaintTypeConfidence(total) ==
    RatMin(FromInt(100), RatMul(Rat(total, 100), FromInt(100)))

PredictComplaintTypesResult(days_ahead) ==
    LET current_month == MonthOfDay(now)
        target_month  == MonthOfDay(now + days_ahead)
        matched == { d \in BagToSet(requests) :
                       d.day >= now - 365 /\ d.request_type # "other" }
        types == { d.request_type : d \in matched }
        month_count(t, m) ==
          SumCopies(requests, { d \in matched : d.request_type = t
                                                  /\ MonthOfDay(d.day) = m })
        total(t) == SumCopies(requests, { d \in matched : d.request_type = t })
        avg_monthly(t) == IF total(t) > 0 THEN Rat(total(t), 12) ELSE FromInt(0)
        current_month_avg(t) ==
          IF month_count(t, current_month) > 0
            THEN FromInt(month_count(t, current_month))
          ELSE avg_monthly(t)
        pred(t) ==
          LET sf == SeasonalFactor(t, current_month, target_month)
          IN  [ complaint_type |-> t,
                predicted_count |->
                  PredictedCount(current_month_avg(t), sf, days_ahead),
                current_month_avg |-> RoundTo(current_month_avg(t), 10),
                seasonal_factor |-> RoundTo(sf, 100),
                trend |-> SeasonalTrend(sf),
                target_month |-> target_month,
                confidence |-> ComplaintTypeConfidence(total(t)) ]
        preds == { pred(t) : t \in types }
    IN  [ kind |-> "complaint_types",
          predictions |->
            Take(SortDescendingBy(preds, [p \in preds |-> p.predicted_count]), 15),
          days_ahead |-> days_ahead,
          current_month |-> current_month,
          target_month |-> target_month ]

-----------------------------------------------------------------------------
(* PredictionService.predict_borough_complaints                            *)

\* sum(seq)
RECURSIVE SeqSum(_)
SeqSum(seq) == IF seq = <<>> THEN 0 ELSE Head(seq) + SeqSum(Tail(seq))

\* seq[-n:]
LastN(seq, n) ==
    IF Len(seq) <= n THEN seq ELSE SubSeq(seq, Len(seq) - n + 1, Len(seq))

Mean(seq) == IF seq = <<>> THEN FromInt(0) ELSE Rat(SeqSum(seq), Len(seq))

\* the window: 180 days, 90 with fewer than 1000 records, 30 with fewer
\* than 500
BoroughCutoff ==
    LET with_borough == { d \in BagToSet(requests) : d.borough # "" }
        total_records == SumCopies(requests, with_borough)
    IN  IF total_records < 500 THEN now - 30
        ELSE IF total_records < 1000 THEN now - 90
        ELSE now - 180

\* the aggregation pipeline and borough_data: per borough, the counts of the
\* days on which it has a record, in date order
BoroughMatched ==
    { d \in BagToSet(requests) : d.day >= BoroughCutoff /\ d.borough # "" }

BoroughCounts(borough) ==
    LET docs == { d \in BoroughMatched : d.borough = borough }
        dates == SortAscending({ d.day : d \in docs })
    IN  [ i \in 1..Len(dates) |->
            SumCopies(requests, { d \in docs : d.day = dates[i] }) ]

\* recent_avg: the mean of the last min(30, len) counts
RecentAvg(counts) == Mean(LastN(counts, 30))

\* (mutant) the regression over the whole series instead of the last 60.
Mut_TrendSlope_WholeSeries(counts) ==
    LET n == Len(counts)
        sum_x  == SumOver([i \in 1..n |-> i - 1], 1..n)
        sum_y  == SeqSum(counts)
        sum_xy == SumOver([i \in 1..n |-> (i - 1) * counts[i]], 1..n)
        sum_x2 == SumOver([i \in 1..n |-> (i - 1) * (i - 1)], 1..n)
        denominator == n * sum_x2 - sum_x * sum_x
    IN  IF n > 1 /\ denominator # 0
          THEN Rat(n * sum_xy - sum_x * sum_y, denominator)
        ELSE FromInt(0)

\* (mutant) the index advancing every second point: 0, 0, 1, 1, ...
Mut_RegressionDenominator_TwoDaySteps(n) ==
    LET sum_x  == SumOver([i \in 1..n |-> (i - 1) \div 2], 1..n)
        sum_x2 == SumOver([i \in 1..n |-> ((i - 1) \div 2) * ((i - 1) \div 2)],
                          1..n)
    IN  n * sum_x2 - sum_x * sum_x

\* denominator = n * sum_x2 - sum_x * sum_x for x_values = range(n)
RegressionDenominator(n) ==
    LET sum_x  == SumOver([i \in 1..n |-> i - 1], 1..n)
        sum_x2 == SumOver([i \in 1..n |-> (i - 1) * (i - 1)], 1..n)
    IN  n * sum_x2 - sum_x * sum_x

\* slope: least squares over the last min(60, len) counts against 0..n-1
TrendSlope(counts) ==
    LET trend_counts == LastN(counts, 60)
        n == Len(trend_counts)
        sum_x  == SumOver([i \in 1..n |-> i - 1], 1..n)
        sum_y  == SeqSum(trend_counts)
        sum_xy == SumOver([i \in 1..n |-> (i - 1) * trend_counts[i]], 1..n)
        denominator == RegressionDenominator(n)
    IN  IF n > 1
          THEN IF denominator # 0
                 THEN Rat(n * sum_xy - sum_x * sum_y, denominator)
               ELSE FromInt(0)
        ELSE FromInt(0)

\* (mutant) the trend applied without the 50% cap and the 10% floor.
Mut_PredictedDaily_Unbounded(recent_avg, slope, days_ahead) ==
    RatAdd(recent_avg, RatMul(slope, Rat(days_ahead, 2)))

\* (mutant) the adjustment capped at the whole of recent_avg.
Mut_PredictedDaily_CapAtWhole(recent_avg, slope, days_ahead) ==
    LET trend_adjustment == RatMul(slope, Rat(days_ahead, 2))
        capped == RatMax(RatMul(FromInt(-1), recent_avg), trend_adjustment)
    IN  RatMax(RatMul(recent_avg, Rat(1, 10)), RatAdd(recent_avg, capped))

\* predicted_daily: recent_avg plus the capped trend adjustment, floored at
\* 10% of recent_avg
PredictedDaily(recent_avg, slope, days_ahead) ==
    LET base_daily == recent_avg
        trend_adjustment == RatMul(slope, Rat(days_ahead, 2))
        max_negative_adjustment == RatMul(FromInt(-1), RatMul(base_daily, Rat(5, 10)))
        capped == RatMax(max_negative_adjustment, trend_adjustment)
        min_daily == RatMul(recent_avg, Rat(1, 10))
    IN  RatMax(min_daily, RatAdd(base_daily, capped))

\* (mutant) the total without the final max(0, ...).
Mut_PredictedTotal_NoSafetyCheck(predicted_daily, days_ahead) ==
    IntOf(RatMul(predicted_daily, FromInt(days_ahead)))

\* predicted_total = max(0, int(predicted_daily * days_ahead))
PredictedTotal(predicted_daily, days_ahead) ==
    LET total == IntOf(RatMul(predicted_daily, FromInt(days_ahead)))
    IN  IF total < 0 THEN 0 ELSE total

BaseConfidence(data_points) ==
    IF data_points >= 30 THEN 85
    ELSE IF data_points >= 14 THEN 70
    ELSE IF data_points >= 7 THEN 50
    ELSE 30

\* (mutant) the confidence returned without the final clamp.
Mut_ClampConfidence_None(confidence) == confidence

\* confidence = max(30, min(95, confidence))
ClampConfidence(confidence) ==
    RatMax(FromInt(30), RatMin(FromInt(95), confidence))

\* (mutant) a factor that grows with the variation.
Mut_VarianceFactor_Rewarding(cv100) ==
    IF cv100 > 50
      THEN Rat(200 + (IF cv100 - 50 < 60 THEN cv100 - 50 ELSE 60), 200)
    ELSE FromInt(1)

\* 1 - min(0.3, (cv - 0.5) * 0.5) if cv > 0.5, else 1; cv in hundredths
VarianceFactor(cv100) ==
    IF cv100 > 50
      THEN Rat(200 - (IF cv100 - 50 < 60 THEN cv100 - 50 ELSE 60), 200)
    ELSE FromInt(1)

\* The confidence before the clamp.  With S = sum(counts), Q = sum of squares
\* and n = len(counts): variance = (n*Q - S*S) / n^2 and
\* cv^2 = (n*Q - S*S) / S^2.  cv is a square root; between 0.5 and 1.1, where
\* its value is used, it is taken to two decimals (rounded down).
UnclampedConfidence(counts) ==
    LET n == Len(counts)
        S == SeqSum(counts)
        Q == SumOver([i \in 1..n |-> counts[i] * counts[i]], 1..n)
        var_n2 == n * Q - S * S
        base == BaseConfidence(n)
        cv100 == CHOOSE r \in 50..110 :
                   /\ r * r * S * S <= 10000 * var_n2
                   /\ 10000 * var_n2 < (r + 1) * (r + 1) * S * S
    IN  IF var_n2 > 0 /\ S > 0 /\ 4 * var_n2 > S * S
          THEN IF 100 * var_n2 >= 121 * S * S
                 THEN RatMul(FromInt(base), VarianceFactor(110))
               ELSE RatMul(FromInt(base), VarianceFactor(cv100))
        ELSE FromInt(base)

BoroughConfidence(counts) == ClampConfidence(UnclampedConfidence(counts))

TrendDirection(slope) ==
    IF RatLT(Rat(1, 10), slope) THEN "increasing"
    ELSE IF RatLT(slope, Rat(-1, 10)) THEN "decreasing"
    ELSE "stable"

\* (mutant) the projection as recent_avg plus the raw trend, with neither the
\* cap, the floor nor the final safety check.
Mut_BoroughPrediction_NaiveTrend(borough, days_ahead) ==
    LET counts == BoroughCounts(borough)
        recent_avg == RecentAvg(counts)
        slope == TrendSlope(counts)
        predicted_daily == RatAdd(recent_avg, RatMul(slope, Rat(days_ahead, 2)))
    IN  [ borough |-> borough,
          predicted_complaints |->
            IntOf(RatMul(predicted_daily, FromInt(days_ahead))),
          predicted_daily_avg |-> predicted_daily,
          current_daily_avg |-> RoundTo(recent_avg, 10),
          historical_daily_avg |-> RoundTo(Mean(counts), 10),
          trend |-> TrendDirection(slope),
          trend_slope |-> RoundTo(slope, 100),
          confidence |-> RoundTo(BoroughConfidence(counts), 10),
          days_ahead |-> days_ahead,
          data_points |-> Len(counts) ]

BoroughPrediction(borough, days_ahead) ==
    LET counts == BoroughCounts(borough)
        recent_avg == RecentAvg(counts)
        slope == TrendSlope(counts)
        predicted_daily == PredictedDaily(recent_avg, slope, days_ahead)
    IN  [ borough |-> borough,
          predicted_complaints |-> PredictedTotal(predicted_daily, days_ahead),
          predicted_daily_avg |-> RoundTo(predicted_daily, 10),
          current_daily_avg |-> RoundTo(recent_avg, 10),
          historical_daily_avg |-> RoundTo(Mean(counts), 10),
          trend |-> TrendDirection(slope),
          trend_slope |-> RoundTo(slope, 100),
          confidence |-> RoundTo(BoroughConfidence(counts), 10),
          days_ahead |-> days_ahead,
          data_points |-> Len(counts) ]

PredictBoroughComplaintsResult(days_ahead) ==
    LET boroughs == { d.borough : d \in BoroughMatched }
        kept == { b \in boroughs :
                    /\ b # "" /\ Upper(b) # "UNSPECIFIED"
                    /\ Len(BoroughCounts(b)) >= 3 }
        preds == { BoroughPrediction(b, days_ahead) : b \in kept }
    IN  [ kind |-> "borough_complaints",
          predictions |->
            SortDescendingBy(preds, [p \in preds |-> p.predicted_complaints]),
          count |-> Cardinality(preds),
          days_ahead |-> days_ahead ]

-----------------------------------------------------------------------------
(* PredictionService.predict_overflow_risk                                 *)

\* $match: overflow complaints of the last 90 days
OverflowMatched ==
    { d \in BagToSet(requests) :
        d.request_type = "overflow" /\ d.day >= now - 90 }

\* $group by zone_id, $sort by overflow_count descending, $limit 20
OverflowData ==
    LET zones == { d.zone_id : d \in OverflowMatched }
        zone_data(z) ==
          LET docs == { d \in OverflowMatched : d.zone_id = z }
          IN  [ zone_id |-> z,
                overflow_count |-> SumCopies(requests, docs),
                recent_overflow |->
                  SumCopies(requests, { d \in docs : d.day >= now - 7 }) ]
        all == { zone_data(z) : z \in zones }
    IN  Take(SortDescendingBy(all, [z \in all |-> z.overflow_count]), 20)

\* count_documents: completed collections of the zone in the last 7 days
RecentCollections(zone_id) ==
    SumCopies(collections,
              { c \in BagToSet(collections) :
                  /\ c.zone_id = zone_id
                  /\ c.day >= now - 7
                  /\ c.status = "completed" })

\* overflow_score = min(100, overflow_count * 10)
OverflowScore(overflow_count) ==
    IF overflow_count * 10 < 100 THEN overflow_count * 10 ELSE 100

\* collection_score = max(0, 50 - (recent_collections * 5))
CollectionScore(recent_collections) ==
    IF 50 - recent_collections * 5 > 0 THEN 50 - recent_collections * 5 ELSE 0

\* (mutant) the sum of the two components, not capped.
Mut_RiskScore_Uncapped(overflow_count, recent_collections) ==
    OverflowScore(overflow_count) + CollectionScore(recent_collections)

\* risk_score = min(100, overflow_score + collection_score); an integer, which
\* round(risk_score, 1) leaves as it is
RiskScore(overflow_count, recent_collections) ==
    LET total == OverflowScore(overflow_count)
                   + CollectionScore(recent_collections)
    IN  IF total < 100 THEN total ELSE 100

\* (mutant) 'high' from 70 on.
Mut_RiskLevel_HighFrom70(risk_score) ==
    IF risk_score >= 70 THEN "high"
    ELSE IF risk_score > 40 THEN "medium"
    ELSE "low"

RiskLevel(risk_score) ==
    IF risk_score > 70 THEN "high"
    ELSE IF risk_score > 40 THEN "medium"
    ELSE "low"

Recommendation(risk_score) ==
    IF risk_score > 70 THEN "Increase collection frequency"
    ELSE IF risk_score > 40 THEN "Monitor closely"
    ELSE "Normal operations"

RiskZone(zone_data) ==
    LET recent_collections == RecentCollections(zone_data.zone_id)
        risk_score == RiskScore(zone_data.overflow_count, recent_collections)
    IN  [ zone_id |-> zone_data.zone_id,
          risk_score |-> risk_score,
          overflow_count_90d |-> zone_data.overflow_count,
          recent_overflow_7d |-> zone_data.recent_overflow,
          recent_collections_7d |-> recent_collections,
          risk_level |-> RiskLevel(risk_score),
          recommendation |-> Recommendation(risk_score) ]

PredictOverflowRiskResult(days_ahead) ==
    LET risk_zones == { RiskZone(z) : z \in Range(OverflowData) }
    IN  [ kind |-> "overflow_risk",
          predictions |->
            SortDescendingBy(risk_zones, [z \in risk_zones |-> z.risk_score]) ]

-----------------------------------------------------------------------------
(* get_tonnage_trends: GET /tonnage/trends                                 *)

\* datetime(now.year, now.month, 1)
FirstOfMonth(day) == (day \div 365) * 365 + MonthStarts[MonthOfDay(day)]

\* ($year, $month) of a date as one number
MonthKey(day) == (day \div 365) * 12 + MonthOfDay(day)

\* $match: completed collections with tonnage > 0 in [start_date, end_date)
TrendMatched(months_back) ==
    { c \in BagToSet(collections) :
        /\ c.day >= FirstOfMonth(now) - 30 * months_back
        /\ c.day < FirstOfMonth(now)
        /\ Get(c, "tonnage", 0) > 0
        /\ Get(c, "status", "") = "completed" }

\* the borough of a matched collection; 'Unknown' ones are skipped
TrendBorough(c) ==
    IF c.zone_id \in DOMAIN ZoneBoroughs THEN ZoneBoroughs[c.zone_id]
    ELSE "Unknown"

\* borough_trends[borough][date_key], in tons; 0 for a month without records
BoroughMonthTonnage(months_back, borough, month_key) ==
    LET docs == { c \in TrendMatched(months_back) :
                    TrendBorough(c) = borough /\ MonthKey(c.day) = month_key }
    IN  SumOver([c \in docs |-> c.tonnage * CopiesIn(c, collections)], docs)

\* (mutant) the average of the months in which the borough has records.
Mut_TrendRecentAvg_ObservedOnly(recent_data) ==
    LET observed == { i \in 1..Len(recent_data) : recent_data[i] # FromInt(0) }
    IN  IF observed = {} THEN FromInt(0)
        ELSE RatMul(RatSumOver(recent_data, observed),
                    Rat(1, Cardinality(observed)))

\* sum(recent_data) / len(recent_data), or 0 when the sum is 0
TrendRecentAvg(recent_data) ==
    LET total == RatSumOver(recent_data, 1..Len(recent_data))
    IN  IF Len(recent_data) > 0 /\ RatLT(FromInt(0), total)
          THEN RatMul(total, Rat(1, Len(recent_data)))
        ELSE FromInt(0)

RECURSIVE Growth(_)
\* 1.01 ** i
Growth(i) == IF i = 0 THEN FromInt(1) ELSE RatMul(Rat(101, 100), Growth(i - 1))

TonnageTrendsResult(months_back, months_ahead) ==
    LET matched == { c \in TrendMatched(months_back) : TrendBorough(c) # "Unknown" }
        borough_names == { TrendBorough(c) : c \in matched }
        all_months == SortAscending({ MonthKey(c.day) : c \in matched })
        actual(b, m) ==
          RoundTo(Rat(BoroughMonthTonnage(months_back, b, m), 1000), 100)
        time_series ==
          [ k \in 1..Len(all_months) |->
              [ date |-> all_months[k],
                actual |-> [ b \in borough_names |-> actual(b, all_months[k]) ] ] ]
        last3 == LastN(time_series, 3)
        recent_data(b) == [ k \in 1..Len(last3) |-> last3[k].actual[b] ]
        predictions ==
          [ i \in 1..months_ahead |->
              [ date |-> MonthKey(now) + i,
                predicted |->
                  [ b \in borough_names |->
                      RoundTo(RatMul(TrendRecentAvg(recent_data(b)), Growth(i)),
                              100) ] ] ]
    IN  [ kind |-> "tonnage_trends",
          time_series |-> time_series,
          predictions |-> predictions,
          boroughs |-> borough_names,
          actual_months |-> Len(time_series),
          predicted_months |-> Len(predictions) ]

-----------------------------------------------------------------------------
(* get_dashboard_metrics: the collection figures of GET /metrics/dashboard *)

DashboardMetricsResult(days) ==
    LET in_period == { c \in BagToSet(collections) : c.day >= now - days }
        total_collections == SumCopies(collections, in_period)
        completed == SumCopies(collections,
                               { c \in in_period : Get(c, "status", "") = "completed" })
        missed == SumCopies(collections,
                            { c \in in_period : Get(c, "status", "") = "missed" })
        efficiency == IF total_collections > 0
                        THEN Rat(completed * 100, total_collections)
                      ELSE FromInt(0)
    IN  [ kind |-> "dashboard",
          period_days |-> days,
          overview |->
            [ total_collections |-> total_collections,
              completed_collections |-> completed,
              missed_collections |-> missed,
              collection_efficiency_pct |-> RoundTo(efficiency, 100) ],
          performance |->
            [ on_time_rate |-> RoundTo(efficiency, 100),
              collection_efficiency |-> RoundTo(efficiency, 100) ] ]

-----------------------------------------------------------------------------
(* The read-only operations, as actions: each leaves the store and the     *)
(* clock alone and returns its result.  A behaviour serves one request.    *)

Answer(name, arguments, result) ==
    /\ op = "none"
    /\ database.db
    /\ op' = name
    /\ arg' = arguments
    /\ response' = result
    /\ UNCHANGED <<api_data, requests, collections, routes, now, database>>

\* The horizons a caller of the service passes: days_ahead is an int, and the
\* service itself accepts any.
DaysAheadValues == {-7, 0, 7, 10, 30, 90}
ZoneIds == {"BK-AGG", "QN-AGG"}
PeriodDays == {1, 7}

PredictHotspots ==
    \E days_ahead \in DaysAheadValues :
      Answer("hotspots", [days_ahead |-> days_ahead],
             PredictHotspotsResult(days_ahead))

PredictTonnageForecast ==
    \E zone_id \in ZoneIds, days_ahead \in DaysAheadValues :
      Answer("tonnage_forecast", [zone_id |-> zone_id, days_ahead |-> days_ahead],
             TonnageForecastResult(zone_id, days_ahead))

PredictRouteOptimization ==
    \E zone_id \in ZoneIds :
      Answer("route_optimization", [zone_id |-> zone_id],
             RouteOptimizationResult(zone_id))

PredictComplaintTypes ==
    \E days_ahead \in DaysAheadValues :
      Answer("complaint_types", [days_ahead |-> days_ahead],
             PredictComplaintTypesResult(days_ahead))

PredictBoroughComplaints ==
    \E days_ahead \in DaysAheadValues :
      Answer("borough_complaints", [days_ahead |-> days_ahead],
             PredictBoroughComplaintsResult(days_ahead))

PredictOverflowRisk ==
    \E days_ahead \in DaysAheadValues :
      Answer("overflow_risk", [days_ahead |-> days_ahead],
             PredictOverflowRiskResult(days_ahead))

MonthsBackValues == {3}
MonthsAheadValues == {1, 2}

TonnageTrends ==
    \E months_back \in MonthsBackValues, months_ahead \in MonthsAheadValues :
      Answer("tonnage_trends",
             [months_back |-> months_back, months_ahead |-> months_ahead],
             TonnageTrendsResult(months_back, months_ahead))

DashboardMetrics ==
    \E days \in PeriodDays :
      Answer("dashboard", [days |-> days], DashboardMetricsResult(days))

-----------------------------------------------------------------------------
(* The records the 311 API can return in this model: every pairing of a    *)
(* complaint type with a descriptor below, each as a one-record response,  *)
(* and one response that holds a record for every category.                *)

ComplaintTypeTexts ==
    { "", "   ", "Residential Disposal Complaint", " Dumpster Complaint ",
      "Dead Animal", "Street Sweeping Complaint",
      "Sanitation Worker or Vehicle Complaint", "Derelict Vehicles",
      "Illegal Posting", "Illegal Dumping", "Missed Collection",
      "Dirty Condition", "Snow or Ice", "Graffiti", "Vendor Enforcement",
      "Litter Basket Complaint", "Obstruction", "Air Quality", "Sewer",
      "Lead", "Mold", "Mosquitoes", "Hazardous Materials",
      "Unsanitary Pigeon Condition", "Rodent", "Damaged Container",
      "URGENT Request", "Emergency Response" }

DescriptorTexts ==
    { "", "  ", "Storage Area issue", "Storage area buried in snow",
      "Trash or Recycling Not Secure", "overflowing dumpster", "Overflowing",
      "Rat sighting", "Urgent: bags piled up", "Emergency cleanup needed",
      "Misleading sign", "Mold on wall", "Sewer backup", "Chronic dumping",
      "Broken bin", "Blocked sidewalk", "Spray paint", "Food vendor",
      "No description", "Inadequate sweeping", "Trash on sidewalk" }

RawRecord(key, ct, d) ==
    [unique_key |-> key, complaint_type |-> ct, descriptor |-> d]

\* One record per category, in the order of SANITATION_COMPLAINT_TYPES.
CoverageBatch ==
    << RawRecord("101", "Illegal Dumping", ""),
       RawRecord("102", "", "No pickup this week"),
       RawRecord("103", "", "overflowing dumpster"),
       RawRecord("104", "Rodent", "Rat sighting"),
       RawRecord("105", "Dirty Condition", ""),
       RawRecord("106", "Residential Disposal Complaint",
                 "Trash or Recycling Not Secure"),
       RawRecord("107", "Litter Basket Complaint", ""),
       RawRecord("108", "Damaged Container", "Broken bin"),
       RawRecord("109", "Vendor Enforcement", "Food vendor"),
       RawRecord("110", "Obstruction", ""),
       RawRecord("111", "Graffiti", "Spray paint"),
       RawRecord("112", "Unsanitary Pigeon Condition", ""),
       RawRecord("113", "Air Quality", ""),
       RawRecord("114", "Sewer", "Sewer backup"),
       RawRecord("115", "Lead", ""),
       RawRecord("116", "Street Sweeping Complaint", ""),
       RawRecord("117", "Mosquitoes", ""),
       RawRecord("118", "Mold", "Mold on wall"),
       RawRecord("119", "Snow or Ice", ""),
       RawRecord("120", "Dead Animal", "") >>

ApiResponses ==
    { <<RawRecord("1", ct, d)>> : ct \in ComplaintTypeTexts, d \in DescriptorTexts }
      \cup { CoverageBatch, <<>> }

EmptyStore == EmptyBag

InitClassify ==
    /\ database = Connected
    /\ api_data \in ApiResponses
    /\ requests = EmptyStore
    /\ collections = EmptyStore
    /\ routes = EmptyStore
    /\ now = 0
    /\ op = "none"
    /\ arg = <<>>
    /\ response = NoResponse

NextClassify == Refresh311

SpecClassify == InitClassify /\ [][NextClassify]_vars

-----------------------------------------------------------------------------
(* Claims about the classifier, checked under SpecClassify.                *)

\* The document refresh_311 stored for the i-th fetched record.
StoredFor(i) ==
    { d \in BagToSet(requests) :
        d.request_id = "SR-API-" \o api_data[i].unique_key }

Refreshed == op = "refresh_311"

\* Every keyword that some branch of the cascade tests.
RuleKeywords ==
    { "unsanitary pigeon condition", "unsanitary animal facility",
      "air quality", "unsanitary condition", "dirty conditions", "sewer",
      "water quality", "missed collection", "hazardous materials", "lead",
      "sweeping", "mosquitoes", "mold", "snow",
      "residential disposal complaint", "dumpster complaint", "dead animal",
      "street sweeping complaint", "sanitation worker", "vehicle complaint",
      "derelict vehicle", "illegal posting",
      "dumping", "illegal dump", "dumped", "missed pickup", "missed trash",
      "collection missed", "pickup missed", "no pickup", "overflow",
      "over flowing", "bin full", "container full", "rodent", "rat", "mouse",
      "mice", "dirty condition", "sanitation condition", "unsanitary",
      "dirty area", "filthy", "trash", "garbage", "refuse", "waste", "debris",
      "rubbish", "not secure", "not separated", "litter", "basket",
      "damaged container", "broken container", "container damaged",
      "damaged bin", "broken bin", "vendor", "enforcement", "obstruction",
      "blocking", "blocked", "obstructing", "graffiti", "vandalism",
      "spray paint", "street condition", "sidewalk" }

\* C3: classification is total.  After a refresh, every fetched record has
\* exactly one stored document, its request_type is one of the 20 categories
\* of SANITATION_COMPLAINT_TYPES, and it is 'other' whenever no rule keyword
\* occurs in the record's text (empty and whitespace-only texts included).
Thm_C3_ClassificationTotal ==
    Refreshed =>
      /\ Cardinality(SANITATION_COMPLAINT_TYPES) = 20
      /\ \A i \in 1..Len(api_data) :
           /\ Cardinality(StoredFor(i)) = 1
           /\ \A d \in StoredFor(i) :
                /\ d.request_type \in SANITATION_COMPLAINT_TYPES
                /\ ~AnyIn(RuleKeywords, CombinedText(api_data[i]))
                     => d.request_type = "other"

\* C3 witness: a whitespace-only record was classified, to 'other'.
Wit_C3_WhitespaceIsOther ==
    /\ Refreshed
    /\ api_data = <<RawRecord("1", "   ", "  ")>>
    /\ \E d \in StoredFor(1) : d.request_type = "other"

\* The complaint type carries one of the three agency codes the claims name.
AgencyCoded(record) ==
    AnyIn({"residential disposal complaint", "dumpster complaint", "dead animal"},
          ComplaintLower(record))

\* Some branch ahead of the agency-code branches matches the combined text.
EarlierBranchMatches(record) ==
    \/ AnyIn({ "unsanitary pigeon condition", "unsanitary animal facility",
               "air quality", "unsanitary condition", "dirty conditions",
               "sewer", "water quality", "missed collection",
               "hazardous materials", "lead", "mosquitoes", "mold", "snow" },
             CombinedText(record))
    \/ /\ Contains(CombinedText(record), "sweeping")
       /\ AnyIn({"inadequate", "missed"}, CombinedText(record))

\* C4 as stated: for an agency-coded complaint type the category is the one
\* the agency-code rule decides, whatever the descriptor contains.
Cex_C4_AgencyBeatsEveryKeyword ==
    Refreshed =>
      \A i \in 1..Len(api_data) : \A d \in StoredFor(i) :
        AgencyCoded(api_data[i])
          => d.request_type = AgencyCodeRule(ComplaintLower(api_data[i]),
                                             DescriptorLower(api_data[i]))

\* C4 (amended): for an agency-coded complaint type whose text matches none of
\* the branches placed ahead of the agency codes, the category is the one the
\* agency-code rule decides, whatever generic keywords the descriptor contains.
Thm_C4_AgencyBeatsGenericKeywords ==
    Refreshed =>
      \A i \in 1..Len(api_data) : \A d \in StoredFor(i) :
        (AgencyCoded(api_data[i]) /\ ~EarlierBranchMatches(api_data[i]))
          => d.request_type = AgencyCodeRule(ComplaintLower(api_data[i]),
                                             DescriptorLower(api_data[i]))

\* C4 witness: an agency-coded record whose descriptor holds the generic
\* keyword 'dumping' was classified by the agency-code rule.
Wit_C4_AgencyOverDumping ==
    /\ Refreshed
    /\ api_data = <<RawRecord("1", "Residential Disposal Complaint", "Chronic dumping")>>
    /\ \E d \in StoredFor(1) : d.request_type = "trash_issue"

ListedDisposalPhrases ==
    { "not secure", "not separated", "bin not used", "too early", "too late",
      "left in front" }

\* The records of the infrastructure carve-out.
StorageAreaCase(record) ==
    /\ ComplaintType(record) = "Residential Disposal Complaint"
    /\ Contains(DescriptorLower(record), "storage area")
    /\ ~AnyIn(ListedDisposalPhrases, DescriptorLower(record))

OverflowingDumpsterCase(record) ==
    record.complaint_type = "" /\ record.descriptor = "overflowing dumpster"

\* C5 as stated: every storage-area record is 'other', and the overflowing
\* dumpster record is 'overflow'.
Cex_C5_CarveOutForEveryDescriptor ==
    Refreshed =>
      \A i \in 1..Len(api_data) : \A d \in StoredFor(i) :
        /\ StorageAreaCase(api_data[i]) => d.request_type = "other"
        /\ OverflowingDumpsterCase(api_data[i]) => d.request_type = "overflow"

\* C5 (amended): a storage-area record whose text matches none of the
\* branches placed ahead of the agency codes is 'other' (so is the documented
\* "Storage Area issue"), and the overflowing dumpster record is 'overflow'.
Thm_C5_CarveOutAndOverflow ==
    Refreshed =>
      \A i \in 1..Len(api_data) : \A d \in StoredFor(i) :
        /\ (StorageAreaCase(api_data[i]) /\ ~EarlierBranchMatches(api_data[i]))
             => d.request_type = "other"
        /\ (api_data[i].complaint_type = "Residential Disposal Complaint"
              /\ api_data[i].descriptor = "Storage Area issue")
             => d.request_type = "other"
        /\ OverflowingDumpsterCase(api_data[i]) => d.request_type = "overflow"

\* C5 witness: the documented storage-area record was classified.
Wit_C5_StorageAreaIssue ==
    /\ Refreshed
    /\ api_data = <<RawRecord("1", "Residential Disposal Complaint", "Storage Area issue")>>
    /\ \E d \in StoredFor(1) : d.request_type = "other"

\* C6: every category is reachable.  The refresh of CoverageBatch stores a
\* document of each of the 20 categories.
Thm_C6_EveryCategoryReachable ==
    (Refreshed /\ api_data = CoverageBatch) =>
      { d.request_type : d \in BagToSet(requests) } = SANITATION_COMPLAINT_TYPES

\* C6 witness: CoverageBatch was refreshed, one document per record.
Wit_C6_CoverageBatchStored ==
    /\ Refreshed
    /\ api_data = CoverageBatch
    /\ BagCardinality(requests) = Len(CoverageBatch)

HighSeverityCategories ==
    { "illegal_dumping", "rodent", "overflow", "hazardous_materials", "mold",
      "air_quality", "water_quality" }

\* C7 as stated: priority is 'urgent' whenever 'urgent' or 'emergency' occurs
\* anywhere in the record's text, else 'high' exactly for the high-severity
\* categories, else 'normal'.
Cex_C7_UrgentAnywhereInText ==
    Refreshed =>
      \A i \in 1..Len(api_data) : \A d \in StoredFor(i) :
        d.priority =
          IF AnyIn({"urgent", "emergency"}, CombinedText(api_data[i]))
            THEN "urgent"
          ELSE IF d.request_type \in HighSeverityCategories THEN "high"
          ELSE "normal"

-----------------------------------------------------------------------------
(* The stores and clocks the prediction requests are checked on.           *)

\* The number of consecutive days, ending today, on which the series borough
\* may have records.
NumSeriesDays == 3

\* The number of records of one day of the series.
CountValues == {0, 1, 5, 10, 15}

SeriesClocks == {400, 530, 660}

HomeCell == "40.678,-73.944"
OtherCell == "40.728,-73.794"

BagOf(doc, copies) == [d \in {doc} |-> copies]

\* A borough with records on some of the last NumSeriesDays days, a borough
\* with two records, records of borough 'Unspecified' and one without borough.
SeriesStore(t, cs) ==
    LET day_of(k) == t - (NumSeriesDays - k)
        series == { RequestDoc("BROOKLYN", day_of(k), "overflow", "high",
                               HomeCell, "BK-AGG") :
                      k \in { j \in 1..NumSeriesDays : cs[j] > 0 } }
    IN  [ d \in series |-> cs[d.day - t + NumSeriesDays] ]
          (+) BagOf(RequestDoc("QUEENS", t - 1, "rodent", "normal", OtherCell, "QN-AGG"), 2)
          (+) BagOf(RequestDoc("Unspecified", t, "other", "normal", NoCell, "UNKNOWN"), 1)
          (+) BagOf(RequestDoc("Unspecified", t - 1, "other", "normal", NoCell, "UNKNOWN"), 1)
          (+) BagOf(RequestDoc("Unspecified", t - 2, "other", "normal", NoCell, "UNKNOWN"), 1)
          (+) BagOf(RequestDoc("", t, "trash_issue", "normal", NoCell, "UNKNOWN"), 1)

\* Mid-month days of the second year, one per month.
MonthClocks == { 365 + MonthStarts[m] + 14 : m \in 1..12 }

TypeNames ==
    { "snow", "mosquitoes", "mold", "air_quality", "overflow", "rodent",
      "trash_issue", "other" }

\* Records of every type: `recent` copies today, `older` copies 100 days ago.
TypeStore(t, recent, older) ==
    BagUnion({ BagOf(RequestDoc("BRONX", t, ty, "normal", NoCell, "BX-AGG"), recent) :
                 ty \in IF recent > 0 THEN TypeNames ELSE {} })
      (+) BagUnion({ BagOf(RequestDoc("BRONX", t - 100, ty, "normal", NoCell, "BX-AGG"), older) :
                       ty \in TypeNames })

TypeStores(t) == { TypeStore(t, 3, 2), TypeStore(t, 0, 120) }

\* A borough with records on each of the last `len` days: "flat2" two a day,
\* "alt15" one and five on alternate days, "flat100" and "flat150" a hundred
\* and a hundred and fifty a day; "shift" forty a day up to 60 days ago,
\* sixteen a day up to 30 days ago and twenty a day since.
LongLengths == {7, 14, 30}
LongPatterns == {"flat2", "alt15", "flat100", "flat150"}

LongCount(pattern, i) ==
    IF pattern = "flat2" THEN 2
    ELSE IF pattern = "alt15" THEN (IF i % 2 = 0 THEN 1 ELSE 5)
    ELSE IF pattern = "flat100" THEN 100
    ELSE IF pattern = "flat150" THEN 150
    ELSE (IF i >= 60 THEN 40 ELSE IF i >= 30 THEN 16 ELSE 20)

LongStore(t, len, pattern) ==
    [ d \in { RequestDoc("MANHATTAN", t - i, "missed_pickup", "normal",
                         HomeCell, "MN-AGG") : i \in 0..(len - 1) }
        |-> LongCount(pattern, t - d.day) ]

OperationsClocks == {400}

\* Monthly tonnage of three months: one zone with records in each of them,
\* one with none in the middle month, and one zone that db.zones lacks.
MonthlyStore(t) ==
    LET first == FirstOfMonth(t)
    IN  BagOf(CollectionDoc("BK-AGG", first - 80, "completed", "residential", 3000), 1)
          (+) BagOf(CollectionDoc("BK-AGG", first - 50, "completed", "residential", 1000), 2)
          (+) BagOf(CollectionDoc("BK-AGG", first - 20, "completed", "residential", 4000), 1)
          (+) BagOf(CollectionDoc("QN-AGG", first - 80, "completed", "residential", 1000), 1)
          (+) BagOf(CollectionDoc("QN-AGG", first - 20, "completed", "residential", 2000), 1)
          (+) BagOf(CollectionDoc("QN-AGG", first - 50, "missed", "residential", 0), 1)
          (+) BagOf(CollectionDoc("SI-AGG", first - 20, "completed", "residential", 500), 1)

CollectionStores(t) ==
    { EmptyBag,
      BagOf(CollectionDoc("BK-AGG", t, "completed", "residential", 12), 1),
      BagOf(CollectionDoc("BK-AGG", t, "completed", "residential", 12), 2)
        (+) BagOf(CollectionDoc("BK-AGG", t - 3, "completed", "recycling", 5), 1)
        (+) BagOf(CollectionDoc("BK-AGG", t - 3, "missed", "residential", 0), 1),
      BagOf(CollectionDoc("BK-AGG", t, "missed", "residential", 0), 2),
      BagOf(CollectionDoc("QN-AGG", t - 10, "completed", "organic", 7), 70),
      BagOf(CollectionDoc("BK-AGG", t - 61, "completed", "residential", 9), 1),
      BagOf([zone_id |-> "QN-AGG", day |-> t, status |-> "completed"], 1),
      BagOf(CollectionDoc("BK-AGG", t - 1, "completed", "residential", 8), 10),
      MonthlyStore(t) }

\* Overflow complaints per zone: none; one today; four yesterday with older
\* ones elsewhere; seven the day before yesterday and fifteen elsewhere.
OverflowStores(t) ==
    { EmptyBag,
      BagOf(RequestDoc("BROOKLYN", t, "overflow", "high", HomeCell, "BK-AGG"), 1),
      BagOf(RequestDoc("BROOKLYN", t - 1, "overflow", "high", HomeCell, "BK-AGG"), 4)
        (+) BagOf(RequestDoc("QUEENS", t - 8, "overflow", "high", OtherCell, "QN-AGG"), 2)
        (+) BagOf(RequestDoc("QUEENS", t - 91, "overflow", "high", OtherCell, "QN-AGG"), 1),
      BagOf(RequestDoc("BROOKLYN", t - 2, "overflow", "high", HomeCell, "BK-AGG"), 7)
        (+) BagOf(RequestDoc("QUEENS", t - 20, "overflow", "high", OtherCell, "QN-AGG"), 15) }

RouteStores ==
    { EmptyBag,
      BagOf(RouteDoc("BK-AGG", "completed", 200), 2)
        (+) BagOf(RouteDoc("BK-AGG", "scheduled", 100), 1),
      BagOf([zone_id |-> "QN-AGG", status |-> "in_progress"], 1) }

InitPredict ==
    /\ database = Connected
    /\ api_data = <<>>
    /\ op = "none"
    /\ arg = <<>>
    /\ response = NoResponse
    /\ \/ /\ now \in SeriesClocks
          /\ requests \in { SeriesStore(now, cs) :
                              cs \in [1..NumSeriesDays -> CountValues] }
          /\ collections = EmptyStore
          /\ routes = EmptyStore
       \/ /\ now \in MonthClocks
          /\ requests \in TypeStores(now)
          /\ collections = EmptyStore
          /\ routes = EmptyStore
       \/ /\ now \in OperationsClocks
          /\ requests \in { LongStore(now, len, pattern) :
                              len \in LongLengths, pattern \in LongPatterns }
                            \cup { LongStore(now, 62, "shift") }
          /\ collections = EmptyStore
          /\ routes = EmptyStore
       \/ /\ now \in OperationsClocks
          /\ requests \in OverflowStores(now)
          /\ collections \in CollectionStores(now)
          /\ routes \in RouteStores

NextPredict ==
    \/ PredictHotspots
    \/ PredictTonnageForecast
    \/ PredictRouteOptimization
    \/ PredictComplaintTypes
    \/ PredictBoroughComplaints
    \/ PredictOverflowRisk
    \/ TonnageTrends
    \/ DashboardMetrics

SpecPredict == InitPredict /\ [][NextPredict]_vars

-----------------------------------------------------------------------------
(* Claims about the predictions, checked under SpecPredict.                *)

\* The prediction records of the last response that carry a confidence.
ConfidenceRecords ==
    IF op \in {"hotspots", "complaint_types", "borough_complaints"}
      THEN Range(response.predictions)
    ELSE IF op = "tonnage_forecast" /\ "error" \notin DOMAIN response
      THEN {response}
    ELSE {}

InRange(x, lo, hi) == RatLE(FromInt(lo), x) /\ RatLE(x, FromInt(hi))

\* C1 as stated: every prediction record of every predict_* operation carries
\* a confidence in [30, 95].
Cex_C1_EveryConfidenceIn30To95 ==
    \A r \in ConfidenceRecords : InRange(r.confidence, 30, 95)

\* C1 (amended): every record of predict_borough_complaints carries a
\* confidence in [30, 95]; the records of predict_hotspots,
\* predict_tonnage_forecast and predict_complaint_types carry a confidence
\* above 0 and at most 100.
Thm_C1_ConfidenceRanges ==
    \A r \in ConfidenceRecords :
      IF op = "borough_complaints"
        THEN InRange(r.confidence, 30, 95)
      ELSE RatLT(FromInt(0), r.confidence) /\ RatLE(r.confidence, FromInt(100))

\* C1 witness: a borough record whose confidence the final clamp raised to 30.
Wit_C1_ClampedBoroughConfidence ==
    /\ op = "borough_complaints"
    /\ \E p \in Range(response.predictions) :
         /\ p.confidence = FromInt(30)
         /\ RatLT(UnclampedConfidence(BoroughCounts(p.borough)), FromInt(30))

\* The predicted counts of the last response.
PredictedCounts ==
    IF op = "hotspots"
      THEN { p.predicted_requests : p \in Range(response.predictions) }
    ELSE IF op = "complaint_types"
      THEN { p.predicted_count : p \in Range(response.predictions) }
    ELSE IF op = "borough_complaints"
      THEN { p.predicted_complaints : p \in Range(response.predictions) }
    ELSE {}

\* C2: for every store, clock and horizon >= 0, each predicted count
\* (predicted_complaints, predicted_requests, predicted_count) is >= 0.
Thm_C2_PredictedCountsNonNegative ==
    (op # "none" /\ "days_ahead" \in DOMAIN arg /\ arg.days_ahead >= 0) =>
      \A n \in PredictedCounts : n >= 0

\* C2 witness: a borough forecast over 90 days on a falling series, whose raw
\* trend projection recent_avg + slope * 45 is negative.
Wit_C2_FallingSeriesForecast ==
    /\ op = "borough_complaints"
    /\ arg.days_ahead = 90
    /\ \E p \in Range(response.predictions) :
         LET counts == BoroughCounts(p.borough)
         IN  /\ RatLT(RatAdd(RecentAvg(counts),
                             RatMul(TrendSlope(counts), FromInt(45))),
                      FromInt(0))
             /\ p.predicted_complaints > 0

\* The key of the last request has no historical record.
NoHistoricalRecords ==
    \/ /\ op = "tonnage_forecast"
       /\ ~\E c \in BagToSet(collections) :
             /\ c.zone_id = arg.zone_id
             /\ c.status = "completed"
             /\ c.day >= now - 60
    \/ /\ op = "route_optimization"
       /\ ~\E r \in BagToSet(routes) :
             r.zone_id = arg.zone_id /\ r.status \in {"completed", "in_progress"}
    \/ /\ op = "borough_complaints"
       /\ BoroughMatched = {}
    \/ /\ op = "dashboard"
       /\ ~\E c \in BagToSet(collections) : c.day >= now - arg.days

\* C8 as stated: a request whose key has no historical record is answered by
\* an explicit insufficient-data outcome (an 'error' record), never by a
\* record of the shape of a valid result.
Cex_C8_NoDataIsExplicit ==
    NoHistoricalRecords => "error" \in DOMAIN response

\* The daily rate as C9 gives it.
ClaimedDailyRate(recent_avg, slope, horizon) ==
    RatMax(RatMul(Rat(1, 10), recent_avg),
           RatAdd(recent_avg,
                  RatMax(RatMul(slope, Rat(horizon, 2)),
                         RatMul(Rat(-1, 2), recent_avg))))

\* C9: in the borough prediction the predicted daily rate is
\* max(0.1*recent_avg, recent_avg + max(slope*H/2, -0.5*recent_avg)): the
\* reported daily average and total are derived from it, it is never below
\* 10% of recent_avg and never negative, and with recent_avg = 10,
\* slope = -5, H = 10 the predicted total is not below 10.
Thm_C9_BoundedDailyRate ==
    (op = "borough_complaints" /\ arg.days_ahead >= 0) =>
      \A p \in Range(response.predictions) :
        LET counts == BoroughCounts(p.borough)
            recent_avg == RecentAvg(counts)
            slope == TrendSlope(counts)
            rate == ClaimedDailyRate(recent_avg, slope, arg.days_ahead)
        IN  /\ p.predicted_daily_avg = RoundTo(rate, 10)
            /\ p.predicted_complaints = IntOf(RatMul(rate, FromInt(arg.days_ahead)))
            /\ RatLE(RatMul(Rat(1, 10), recent_avg), rate)
            /\ RatLE(FromInt(0), rate)
            /\ (recent_avg = FromInt(10) /\ slope = FromInt(-5)
                  /\ arg.days_ahead = 10)
                 => p.predicted_complaints >= 10

\* C9 witness: the forecast for recent_avg = 10, slope = -5, H = 10.
Wit_C9_DocumentedForecast ==
    /\ op = "borough_complaints"
    /\ arg.days_ahead = 10
    /\ \E p \in Range(response.predictions) :
         /\ BoroughCounts(p.borough) = <<15, 10, 5>>
         /\ RecentAvg(BoroughCounts(p.borough)) = FromInt(10)
         /\ TrendSlope(BoroughCounts(p.borough)) = FromInt(-5)
         /\ p.predicted_complaints = 50

\* The seasonal factor as C10 gives it.
ClaimedSeasonalFactor(category, current_month, target_month) ==
    IF category \notin DOMAIN SeasonalPatterns THEN FromInt(1)
    ELSE IF target_month \in SeasonalPatterns[category].peak_months
      THEN SeasonalPatterns[category].factor
    ELSE IF current_month \in SeasonalPatterns[category].peak_months
      THEN RatMul(Rat(8, 10), SeasonalPatterns[category].factor)
    ELSE FromInt(1)

\* C10: the seasonal factor of every complaint-type prediction is the peak
\* factor if the target month is a peak month, 0.8 times it if only the
\* current month is, and 1.0 otherwise or for a category outside the table;
\* 'snow' gives 3.0 for target month 1, and 1.0 for target month 7 when the
\* current month is not a peak month.
Thm_C10_SeasonalFactor ==
    op = "complaint_types" =>
      /\ response.current_month = MonthOfDay(now)
      /\ response.target_month = MonthOfDay(now + arg.days_ahead)
      /\ \A p \in Range(response.predictions) :
           /\ p.seasonal_factor =
                ClaimedSeasonalFactor(p.complaint_type, response.current_month,
                                      response.target_month)
           /\ (p.complaint_type = "snow" /\ response.target_month = 1)
                => p.seasonal_factor = FromInt(3)
           /\ (p.complaint_type = "snow" /\ response.target_month = 7
                 /\ response.current_month \notin {12, 1, 2})
                => p.seasonal_factor = FromInt(1)

\* C10 witness: a forecast made in December for January, with 'snow' at 3.0
\* and 'overflow', past its peak, at 0.8 * 1.5.
Wit_C10_SnowInJanuary ==
    /\ op = "complaint_types"
    /\ response.current_month = 12
    /\ response.target_month = 1
    /\ \E p \in Range(response.predictions) :
         p.complaint_type = "snow" /\ p.seasonal_factor = FromInt(3)
    /\ \E p \in Range(response.predictions) :
         p.complaint_type = "overflow" /\ p.seasonal_factor = Rat(12, 10)

-----------------------------------------------------------------------------
(* Claims about the seasonal adjuster, the scorers and the trend.          *)

\* The fixed factor as C11 gives it.
ClaimedGeneralFactor(month) ==
    IF month \in {12, 1, 2} THEN Rat(11, 10)
    ELSE IF month \in {6, 7, 8} THEN Rat(115, 100)
    ELSE FromInt(1)

\* C11 as stated: in predict_hotspots and in predict_borough_complaints the
\* reported forecast is the base forecast multiplied by 1.1 in
\* December-February, by 1.15 in June-August and by 1.0 otherwise.
Cex_C11_SeasonalAdjusterInBoth ==
    /\ op = "hotspots" =>
         \A p \in Range(response.predictions) :
           \E pattern \in Range(HotspotPatterns) :
             /\ pattern.cell = p.location
             /\ p.predicted_requests =
                  IntOf(RatMul(FromInt(IntOf(Rat(pattern.total_requests
                                                   * arg.days_ahead, 90))),
                               ClaimedGeneralFactor(MonthOfDay(now))))
    /\ op = "borough_complaints" =>
         \A p \in Range(response.predictions) :
           LET counts == BoroughCounts(p.borough)
               base == IntOf(RatMul(ClaimedDailyRate(RecentAvg(counts),
                                                     TrendSlope(counts),
                                                     arg.days_ahead),
                                    FromInt(arg.days_ahead)))
           IN  p.predicted_complaints =
                 IntOf(RatMul(FromInt(base),
                              ClaimedGeneralFactor(MonthOfDay(now))))

-----------------------------------------------------------------------------
(* The scorers as functions of their inputs.  The confidence of a borough  *)
(* forecast depends on the series only through data_points and the         *)
(* coefficient of variation cv; the risk score of a zone only through      *)
(* overflow_count and recent_collections.  SpecScore applies each scorer   *)
(* to inputs drawn from bounded ranges; cv is given in hundredths.         *)

MaxSampleCount == 32
MaxCv100 == 120

\* base_confidence, the adjustment for variance and the clamp
ScoredConfidence(data_points, cv100) ==
    ClampConfidence(RatMul(FromInt(BaseConfidence(data_points)),
                           VarianceFactor(cv100)))

ScoreConfidence ==
    \E data_points \in 1..MaxSampleCount, cv100 \in 0..MaxCv100 :
      /\ op = "none"
      /\ op' = "confidence"
      /\ arg' = [ sample_count |-> data_points, cv100 |-> cv100 ]
      /\ response' = [ kind |-> "confidence",
                       confidence |-> ScoredConfidence(data_points, cv100) ]
      /\ UNCHANGED <<api_data, requests, collections, routes, now, database>>

\* C12: the borough forecast confidence is non-decreasing in sample_count for
\* a fixed coefficient of variation and non-increasing in the coefficient of
\* variation for a fixed sample_count.
Thm_C12_ConfidenceMonotone ==
    op = "confidence" =>
      /\ \A more \in arg.sample_count..MaxSampleCount :
           RatLE(response.confidence, ScoredConfidence(more, arg.cv100))
      /\ \A higher \in arg.cv100..MaxCv100 :
           RatLE(ScoredConfidence(arg.sample_count, higher), response.confidence)

\* C12 witness: 14 samples with cv = 0.8 score 70 * 0.85 = 59.5, between the
\* scores of 7 samples (50 * 0.85) and of 14 samples with cv = 0.5 (70).
Wit_C12_ModerateDataHighVariance ==
    /\ op = "confidence"
    /\ arg = [ sample_count |-> 14, cv100 |-> 80 ]
    /\ response.confidence = Rat(119, 2)
    /\ ScoredConfidence(7, 80) = Rat(85, 2)
    /\ ScoredConfidence(14, 50) = FromInt(70)

MaxOverflowCount == 16
MaxRecentCollections == 11

ScoreRisk ==
    \E overflow_count \in 0..MaxOverflowCount,
       recent_collections \in 0..MaxRecentCollections :
      /\ op = "none"
      /\ op' = "risk"
      /\ arg' = [ overflow_count_90d |-> overflow_count,
                  recent_collections_7d |-> recent_collections ]
      /\ response' = [ kind |-> "risk",
                       risk_score |-> RiskScore(overflow_count, recent_collections),
                       risk_level |->
                         RiskLevel(RiskScore(overflow_count, recent_collections)) ]
      /\ UNCHANGED <<api_data, requests, collections, routes, now, database>>

InitScore ==
    /\ database = Connected
    /\ api_data = <<>>
    /\ requests = EmptyStore
    /\ collections = EmptyStore
    /\ routes = EmptyStore
    /\ now = 0
    /\ op = "none"
    /\ arg = <<>>
    /\ response = NoResponse

NextScore ==
    \/ ScoreConfidence
    \/ ScoreRisk

SpecScore == InitScore /\ [][NextScore]_vars

\* The risk score as C13 gives it.
ClaimedRiskScore(overflow_count_90d, recent_collections_7d) ==
    LET Min2(a, b) == IF a < b THEN a ELSE b
        Max2(a, b) == IF a > b THEN a ELSE b
    IN  Min2(100, Min2(100, 10 * overflow_count_90d)
                    + Max2(0, 50 - 5 * recent_collections_7d))

\* C13: for all overflow_count_90d >= 0 and recent_collections_7d >= 0 the
\* risk score equals min(100, min(100, 10*overflow_count_90d)
\* + max(0, 50 - 5*recent_collections_7d)) and lies in [0, 100]; (0, 10)
\* yields 0 and (15, 0) yields 100.
Thm_C13_RiskScore ==
    op = "risk" =>
      /\ response.risk_score =
           ClaimedRiskScore(arg.overflow_count_90d, arg.recent_collections_7d)
      /\ response.risk_score \in 0..100
      /\ (arg.overflow_count_90d = 0 /\ arg.recent_collections_7d = 10)
           => response.risk_score = 0
      /\ (arg.overflow_count_90d = 15 /\ arg.recent_collections_7d = 0)
           => response.risk_score = 100

\* C13 witness: the score of (15, 0), where both the overflow component and
\* the sum are capped.
Wit_C13_BothCapsActive ==
    /\ op = "risk"
    /\ arg = [ overflow_count_90d |-> 15, recent_collections_7d |-> 0 ]
    /\ response.risk_score = 100
    /\ 10 * arg.overflow_count_90d > 100

-----------------------------------------------------------------------------
(* Claims about predict_overflow_risk, checked under SpecPredict.          *)

\* C14: for every risk zone returned by predict_overflow_risk, risk_level is
\* 'high' iff risk_score > 70, 'medium' iff 40 < risk_score <= 70 and 'low'
\* iff risk_score <= 40, and the recommendation is the fixed string of that
\* level.
Thm_C14_RiskLevelAndRecommendation ==
    op = "overflow_risk" =>
      \A z \in Range(response.predictions) :
        /\ z.risk_score = RiskScore(z.overflow_count_90d, z.recent_collections_7d)
        /\ z.risk_level = "high" <=> z.risk_score > 70
        /\ z.risk_level = "medium" <=> (40 < z.risk_score /\ z.risk_score <= 70)
        /\ z.risk_level = "low" <=> z.risk_score <= 40
        /\ z.risk_level = "high" <=> z.recommendation = "Increase collection frequency"
        /\ z.risk_level = "medium" <=> z.recommendation = "Monitor closely"
        /\ z.risk_level = "low" <=> z.recommendation = "Normal operations"

\* C14 witness: a result with a zone at the capped score 100 ('high') and a
\* zone at the boundary score 70 ('medium').
Wit_C14_HighAndBoundaryMedium ==
    /\ op = "overflow_risk"
    /\ \E z \in Range(response.predictions) :
         z.risk_score = 100 /\ z.risk_level = "high"
    /\ \E z \in Range(response.predictions) :
         /\ z.risk_score = 70
         /\ z.risk_level = "medium"
         /\ z.recommendation = "Monitor closely"

-----------------------------------------------------------------------------
(* Claims about the trend and the averages of the borough forecast,        *)
(* checked under SpecPredict.                                              *)

\* The last min(k, len) elements of a series.
Window(series, k) ==
    LET n == IF Len(series) < k THEN Len(series) ELSE k
    IN  [ i \in 1..n |-> series[Len(series) - n + i] ]

\* The least-squares slope of y against the index 0..n-1, as the covariance
\* of index and value over the variance of the index:
\* sum((x - mean_x) * (y - mean_y)) / sum((x - mean_x)^2), with
\* x - mean_x = (2x - (n-1)) / 2 and y - mean_y = (n*y - sum_y) / n.
LeastSquaresSlope(y) ==
    LET n == Len(y)
        sum_y == SeqSum(y)
        dx(i) == 2 * (i - 1) - (n - 1)
        cross == SumOver([i \in 1..n |-> dx(i) * (n * y[i] - sum_y)], 1..n)
        spread == SumOver([i \in 1..n |-> dx(i) * dx(i)], 1..n)
    IN  IF n < 2 \/ spread = 0 THEN FromInt(0)
        ELSE Rat(2 * cross, n * spread)

\* C15: the trend slope is the ordinary least-squares slope of count against
\* the index 0..n-1 over the last n = min(60, len) points, and 0 with fewer
\* than 2 points; recent_avg is the mean of the last min(30, len) counts and
\* historical_avg the mean of all counts.
Thm_C15_TrendAndAverages ==
    /\ op = "borough_complaints" =>
         \A p \in Range(response.predictions) :
           LET counts == BoroughCounts(p.borough)
               recent == Window(counts, 30)
           IN  /\ p.data_points = Len(counts)
               /\ p.trend_slope =
                    RoundTo(LeastSquaresSlope(Window(counts, 60)), 100)
               /\ p.current_daily_avg =
                    RoundTo(Rat(SeqSum(recent), Len(recent)), 10)
               /\ p.historical_daily_avg =
                    RoundTo(Rat(SeqSum(counts), Len(counts)), 10)
    /\ TrendSlope(<<>>) = FromInt(0)
    /\ \A c \in CountValues : TrendSlope(<<c>>) = FromInt(0)

\* C15 witness: a series of 62 days, longer than both windows, whose slope
\* over the last 60 points differs from the slope over all of them and whose
\* recent average differs from the historical one.
Wit_C15_SeriesLongerThanWindows ==
    /\ op = "borough_complaints"
    /\ \E p \in Range(response.predictions) :
         /\ p.data_points = 62
         /\ p.trend_slope # RoundTo(LeastSquaresSlope(BoroughCounts(p.borough)), 100)
         /\ p.trend_slope # FromInt(0)
         /\ p.current_daily_avg = FromInt(20)
         /\ p.historical_daily_avg = Rat(187, 10)

-----------------------------------------------------------------------------
(* Claims about missing buckets, checked under SpecPredict.                *)

\* The months of the last three points of the series in which the borough
\* has a record.
ObservedRecentMonths(borough) ==
    { k \in 1..Len(response.time_series) :
        /\ k > Len(response.time_series) - 3
        /\ BoroughMonthTonnage(arg.months_back, borough,
                               response.time_series[k].date) > 0 }

\* C16 as stated: a missing bucket is never treated as a zero observation in
\* a trend or an average: the borough complaint series holds only the days
\* on which the borough was observed, and the tonnage trend prediction of a
\* borough is the growth factor times the average of its observed recent
\* months.
Cex_C16_MissingBucketsNeverZero ==
    /\ op = "borough_complaints" =>
         \A p \in Range(response.predictions) :
           /\ \A i \in 1..Len(BoroughCounts(p.borough)) :
                BoroughCounts(p.borough)[i] > 0
           /\ p.data_points =
                Cardinality({ d.day : d \in { x \in BoroughMatched :
                                                x.borough = p.borough } })
    /\ op = "tonnage_trends" =>
         \A b \in response.boroughs :
           LET months == ObservedRecentMonths(b)
               observed_avg ==
                 IF months = {} THEN FromInt(0)
                 ELSE RatMul(RatSumOver([k \in months |->
                                           response.time_series[k].actual[b]],
                                        months),
                             Rat(1, Cardinality(months)))
           IN  response.predictions[1].predicted[b] =
                 RoundTo(RatMul(observed_avg, Rat(101, 100)), 100)

-----------------------------------------------------------------------------
(* Claims about raising, checked under SpecPredict.                        *)

\* The operations of PredictionService that take a horizon.
HorizonOperations ==
    { "hotspots", "tonnage_forecast", "complaint_types", "overflow_risk",
      "borough_complaints" }

\* The outcome of a call that raised: the handler's except branch logs and
\* re-raises, and no record is returned.
Raised == [ kind |-> "raised" ]

\* C17 as stated: a predict_* operation raises if and only if a precondition
\* is violated: it does not raise for a horizon >= 0, whatever the store
\* holds, and it raises instead of returning a record for a horizon < 0.
Cex_C17_RaisesIffNegativeHorizon ==
    op \in HorizonOperations =>
      (response = Raised <=> arg.days_ahead < 0)

-----------------------------------------------------------------------------
(* The API responses the two refresh handlers are checked on, with well-   *)
(* formed and malformed dates and tonnage figures.                         *)

Absent == "<absent>"

MonthTexts == { "2001 / 01", "2001 / 13", "January 2001", Absent }
RefuseTexts == { "1,250", "300.5", "n/a", "", "0", "-5" }
MgpTexts == { "40", "4O", Absent }
UncollectedTexts == { "25", "x", "-5", Absent }
TotalTexts == { "2,000", Absent }

\* A record of the DSNY dataset with the fields that are not Absent.
TonnageRecord(month, refuse, mgp, uncollected, total) ==
    LET values == [ month |-> month, borough |-> "Brooklyn",
                    refusetonscollected |-> refuse,
                    mgptonscollected |-> mgp,
                    refusetonsuncollected |-> uncollected,
                    totaltonsgenerated |-> total ]
    IN  [ f \in { g \in DOMAIN values : values[g] # Absent } |-> values[f] ]

TonnageResponses ==
    { << TonnageRecord(m, r, g, u, t) >> :
        m \in MonthTexts, r \in RefuseTexts, g \in MgpTexts,
        u \in UncollectedTexts, t \in TotalTexts }
      \cup { << TonnageRecord("2001 / 01", "n/a", Absent, Absent, Absent),
                TonnageRecord("2001 / 01", "300.5", "40", Absent, Absent),
                TonnageRecord("bad", "10", "4O", "x", Absent) >>,
             <<>> }

CreatedDateTexts ==
    { "2001-01-15T10:30:00.000", "2001-01-15T10:30:00Z", "2001-01-15",
      "2001-13-01T00:00:00.000", "01/15/2001 10:30:00 AM", "" }

Dated311Responses ==
    { << [ unique_key |-> "7", complaint_type |-> "Rodent",
           descriptor |-> "Rat sighting", created_date |-> t ] >> :
        t \in CreatedDateTexts }
      \cup { << RawRecord("8", "Rodent", "Rat sighting") >> }

LatitudeTexts == { "40.7", "90", "91", "abc", "", Absent }

LongitudeTexts == { "-73.9", "-180", "-181", "0", "x", "", Absent }

AddressTexts == { "1 Main St", "", Absent }

LocatedRecord(latitude, longitude, address) ==
    LET values == [ unique_key |-> "9", complaint_type |-> "Rodent",
                    descriptor |-> "Rat sighting", borough |-> "BROOKLYN",
                    latitude |-> latitude, longitude |-> longitude,
                    incident_address |-> address ]
    IN  [ f \in { g \in DOMAIN values : values[g] # Absent } |-> values[f] ]

Located311Responses ==
    { << LocatedRecord(lat, lng, a) >> :
        lat \in LatitudeTexts, lng \in LongitudeTexts, a \in AddressTexts }

InitIngest ==
    /\ database = Connected
    /\ api_data \in TonnageResponses \cup Dated311Responses
                      \cup Located311Responses
    /\ requests = EmptyStore
    /\ collections = EmptyStore
    /\ routes = EmptyStore
    /\ now \in OperationsClocks
    /\ op = "none"
    /\ arg = <<>>
    /\ response = NoResponse

\* Each handler fetches from its own dataset.
NextIngest ==
    \/ api_data \in Dated311Responses \cup Located311Responses /\ Refresh311
    \/ api_data \in TonnageResponses /\ RefreshTonnage

SpecIngest == InitIngest /\ [][NextIngest]_vars

-----------------------------------------------------------------------------
(* Claims about malformed fields, checked under SpecIngest.                *)

\* The collection events stored for the record at position i of the response.
StoredEvents(i) ==
    LET stem == "RT-TONNAGE-" \o Replace(Get(api_data[i], "month", ""), " / ", "-")
        tail == "-" \o SubSeq(Digits, i, i)
    IN  { c \in BagToSet(collections) :
            c.route_id \in { stem \o "-COLLECTED" \o tail,
                             stem \o "-UNCOLLECTED" \o tail } }

\* The figure a tonnage text contributes: its value, 0 if it does not parse.
CleanedTons(record, field) ==
    IF field \in DOMAIN record /\ ParseFloat(record[field]).ok
      THEN ParseFloat(record[field]).value
    ELSE FromInt(0)

\* The statement of C18, for a given rule of when a tonnage record is dropped.
MalformedFieldsHandled(DroppedWhen(_, _)) ==
    /\ op = "refresh_tonnage" =>
         \A i \in 1..Len(api_data) :
           LET record == api_data[i]
               collected == RatAdd(CleanedTons(record, "refusetonscollected"),
                                   CleanedTons(record, "mgptonscollected"))
               uncollected == UncollectedTonnage(record)
               month == Get(record, "month", "")
           IN  /\ StoredEvents(i) = {} <=> DroppedWhen(collected, uncollected)
               /\ \A e \in StoredEvents(i) :
                    /\ e.day = IF month = "2001 / 01" THEN DayNumber(2001, 1, 1)
                               ELSE now
                    /\ e.status = "completed" => e.tonnage = RoundTo(collected, 100)
    /\ op = "refresh_311" =>
         \A i \in 1..Len(api_data) :
           \E d \in BagToSet(requests) :
             /\ d.request_id = "SR-API-" \o api_data[i].unique_key
             /\ d.day = IF /\ "created_date" \in DOMAIN api_data[i]
                           /\ Len(api_data[i].created_date) >= 10
                           /\ SubSeq(api_data[i].created_date, 1, 10) = "2001-01-15"
                          THEN DayNumber(2001, 1, 15)
                        ELSE now

\* C18 as stated: an unparseable month or created_date falls back to
\* ingestion time, an unparseable tonnage field contributes 0, the record is
\* still stored, and a tonnage record produces no collection event exactly
\* when its collected and uncollected tonnage are both 0 after cleaning.
Cex_C18_DroppedIffBothZero ==
    MalformedFieldsHandled(LAMBDA collected, uncollected :
                             collected = FromInt(0) /\ uncollected = FromInt(0))

\* C18 (amended): as above, but a tonnage record produces no collection
\* event exactly when neither its collected nor its uncollected tonnage is
\* greater than 0 after cleaning.
Thm_C18_MalformedFieldsKeepRecord ==
    MalformedFieldsHandled(LAMBDA collected, uncollected :
                             /\ ~RatLT(FromInt(0), collected)
                             /\ ~RatLT(FromInt(0), uncollected))

\* C18 witness: a record with a malformed month and a malformed tonnage field
\* beside a well-formed one, stored with the ingestion day and the tonnage
\* of the well-formed field.
Wit_C18_StoredDespiteBadFields ==
    /\ op = "refresh_tonnage"
    /\ api_data = << TonnageRecord("January 2001", "n/a", "40", Absent, Absent) >>
    /\ \E e \in StoredEvents(1) :
         e.day = now /\ e.tonnage = FromInt(40) /\ e.status = "completed"

(***************************************************************************)
(* The routes router: src/routes/routes.py, mounted under /api/routes by   *)
(* src/app.py.  A request path is the text after the prefix.  The router   *)
(* keeps its endpoints in declaration order and a request is served by     *)
(* the first endpoint whose path pattern matches.  Documents carry no _id  *)
(* and no timestamps here, so the handlers' string conversions of those    *)
(* fields have nothing to act on.                                          *)
(***************************************************************************)
RouteRecord(route_id, zone_id, status) ==
    [ route_id |-> route_id, zone_id |-> zone_id, status |-> status,
      estimated_duration_minutes |-> 240 ]

HttpError(status_code, detail) ==
    [ kind |-> "http_error", status_code |-> status_code, detail |-> detail ]

\* A path parameter matches one non-empty segment without '/'.
IsSegment(text) == Len(text) > 0 /\ IndexOf(text, "/") = 0

PathMatches(pattern, path) ==
    IF pattern = "/{route_id}"
    THEN /\ Len(path) > 1
         /\ SubSeq(path, 1, 1) = "/"
         /\ IsSegment(SubSeq(path, 2, Len(path)))
    ELSE path = pattern

RouterTable ==
    << [ path |-> "",            endpoint |-> "get_routes" ],
       [ path |-> "/{route_id}", endpoint |-> "get_route" ],
       [ path |-> "/active",     endpoint |-> "get_active_routes" ] >>

Dispatch(path) ==
    LET hits == { i \in DOMAIN RouterTable :
                    PathMatches(RouterTable[i].path, path) }
    IN  IF hits = {} THEN "not_found"
        ELSE RouterTable[CHOOSE i \in hits : \A j \in hits : i <= j].endpoint

FindRoutes(Keep(_)) ==
    LET kept == { d \in BagToSet(routes) : Keep(d) }
    IN  [ d \in kept |-> CopiesIn(d, routes) ]

\* get_routes with the default limit and skip; None stands for an absent
\* query parameter.

GetRoutesResult(zone_id, status) ==
    LET found == FindRoutes(LAMBDA d :
                     /\ (zone_id # None => d.zone_id = zone_id)
                     /\ (status # None => d.status = status))
    IN  [ kind |-> "routes", routes |-> found,
          count |-> BagCardinality(found), total |-> BagCardinality(found) ]

\* find_one gives one of the matching documents.
GetRouteResults(route_id) ==
    LET found == { d \in BagToSet(routes) : d.route_id = route_id }
    IN  IF found = {} THEN { HttpError(404, "Route not found") }
        ELSE found

ActiveRoutes ==
    FindRoutes(LAMBDA d : d.status \in {"scheduled", "in_progress"})

GetActiveRoutesResult ==
    [ kind |-> "active_routes", active_routes |-> ActiveRoutes,
      count |-> BagCardinality(ActiveRoutes) ]

RequestPaths == { "", "/active", "/RT-1", "/RT-9", "/RT-1/stops" }

ZoneFilters == { None, "BK-AGG" }

StatusFilters == { None, "scheduled" }

\* GET /api/routes<path>
GetRequest ==
    \E path \in RequestPaths :
      LET endpoint == Dispatch(path)
          segment == SubSeq(path, 2, Len(path))
      IN  CASE endpoint = "get_routes" ->
                 \E zone_id \in ZoneFilters, status \in StatusFilters :
                   Answer("GET /api/routes" \o path,
                          [ endpoint |-> endpoint, zone_id |-> zone_id,
                            status |-> status ],
                          GetRoutesResult(zone_id, status))
            [] endpoint = "get_route" ->
                 \E result \in GetRouteResults(segment) :
                   Answer("GET /api/routes" \o path,
                          [ endpoint |-> endpoint, route_id |-> segment ],
                          result)
            [] endpoint = "get_active_routes" ->
                 Answer("GET /api/routes" \o path,
                        [ endpoint |-> endpoint ], GetActiveRoutesResult)
            [] OTHER ->
                 Answer("GET /api/routes" \o path,
                        [ endpoint |-> endpoint ],
                        HttpError(404, "Not Found"))

RouteRecords ==
    { RouteRecord("RT-1", "BK-AGG", "scheduled"),
      RouteRecord("RT-1", "BK-AGG", "completed"),
      RouteRecord("RT-2", "QN-AGG", "in_progress"),
      RouteRecord("RT-3", "QN-AGG", "delayed"),
      RouteRecord("active", "BK-AGG", "scheduled") }

RouterStores ==
    { SetToBag(S) (+) extra :
        S \in SUBSET RouteRecords,
        extra \in { EmptyBag,
                    BagOf(RouteRecord("RT-2", "QN-AGG", "in_progress"), 1) } }

InitRouter ==
    /\ database = Connected
    /\ api_data = <<>>
    /\ requests = EmptyStore
    /\ collections = EmptyStore
    /\ routes \in RouterStores
    /\ now \in OperationsClocks
    /\ op = "none"
    /\ arg = <<>>
    /\ response = NoResponse

NextRouter == GetRequest

SpecRouter == InitRouter /\ [][NextRouter]_vars

\* C20: GET /api/routes/active is answered by get_active_routes and returns
\* exactly the routes whose status is scheduled or in_progress, with count
\* equal to their number; it is never answered by get_route, for example
\* with 404 'Route not found'.
Cex_C20_ActiveServedByGetActiveRoutes ==
    op = "GET /api/routes/active" =>
      /\ arg.endpoint = "get_active_routes"
      /\ response = GetActiveRoutesResult
      /\ response.count = BagCardinality(ActiveRoutes)
      /\ \A d \in BagToSet(routes) :
           CopiesIn(d, response.active_routes)
             = IF d.status \in {"scheduled", "in_progress"}
               THEN CopiesIn(d, routes) ELSE 0

(***************************************************************************)
(* Prediction requests one after another.  Every predict_* operation       *)
(* begins with Database.get_db() (src/database.py), which connects when    *)
(* Database._db is None: create_app logs a failed connect and serves       *)
(* anyway (src/app.py), so a request can find the class unconnected.       *)
(* connect() assigns _client, pings, and assigns _db only after the ping;  *)
(* a failed ping raises, and the operation logs and re-raises.             *)
(***************************************************************************)
Unconnected == [ client |-> FALSE, db |-> FALSE ]

ConnectOutcomes ==
    { [ database |-> Connected, raised |-> FALSE ],
      [ database |-> [ client |-> TRUE, db |-> FALSE ], raised |-> TRUE ] }

GetDbOutcomes ==
    IF database.db
    THEN { [ database |-> database, raised |-> FALSE ] }
    ELSE ConnectOutcomes

Mut_Serve_MemoisedByOperation(name, arguments, result) ==
    \E outcome \in GetDbOutcomes :
      /\ op' = name
      /\ arg' = arguments
      /\ database' = outcome.database
      /\ response' = IF outcome.raised THEN Raised
                     ELSE IF op = name /\ response # Raised THEN response
                     ELSE result
      /\ UNCHANGED <<api_data, requests, collections, routes, now>>

Serve(name, arguments, result) ==
    \E outcome \in GetDbOutcomes :
      /\ op' = name
      /\ arg' = arguments
      /\ database' = outcome.database
      /\ response' = IF outcome.raised THEN Raised ELSE result
      /\ UNCHANGED <<api_data, requests, collections, routes, now>>

PredictionOperations ==
    { "hotspots", "tonnage_forecast", "route_optimization",
      "complaint_types", "borough_complaints", "overflow_risk" }

FrameDaysAhead == {7, 30}

PredictionArguments(name) ==
    CASE name = "tonnage_forecast" ->
           [ zone_id : ZoneIds, days_ahead : FrameDaysAhead ]
      [] name = "route_optimization" -> [ zone_id : ZoneIds ]
      [] OTHER -> [ days_ahead : FrameDaysAhead ]

PredictionResult(name, arguments) ==
    CASE name = "hotspots" -> PredictHotspotsResult(arguments.days_ahead)
      [] name = "tonnage_forecast" ->
           TonnageForecastResult(arguments.zone_id, arguments.days_ahead)
      [] name = "route_optimization" ->
           RouteOptimizationResult(arguments.zone_id)
      [] name = "complaint_types" ->
           PredictComplaintTypesResult(arguments.days_ahead)
      [] name = "borough_complaints" ->
           PredictBoroughComplaintsResult(arguments.days_ahead)
      [] name = "overflow_risk" ->
           PredictOverflowRiskResult(arguments.days_ahead)

PredictionRequest ==
    \E name \in PredictionOperations :
      \E arguments \in PredictionArguments(name) :
        Serve(name, arguments, PredictionResult(name, arguments))

InitFrame ==
    /\ database \in { Connected, Unconnected }
    /\ api_data = <<>>
    /\ op = "none"
    /\ arg = <<>>
    /\ response = NoResponse
    /\ now \in OperationsClocks
    /\ requests \in OverflowStores(now)
    /\ collections \in CollectionStores(now)
    /\ routes \in RouteStores

NextFrame == PredictionRequest

SpecFrame == InitFrame /\ [][NextFrame]_vars

\* What a request returns when it runs alone against the present store and
\* clock: its result, or the connection error when the class is unconnected.
AloneOutcomes(name, arguments) ==
    { PredictionResult(name, arguments) }
      \cup (IF database.db THEN {} ELSE { Raised })

Prefix(text, n) == SubSeq(text, 1, IF Len(text) < n THEN Len(text) ELSE n)

\* datetime.strptime(text, format) for the two formats of the script, given
\* as digit patterns; the day number where it parses.
StrpTime(text, pattern) ==
    IF /\ Matches(text, pattern)
       /\ DigitsValue(SubSeq(text, 1, 4)) >= 1
       /\ DigitsValue(SubSeq(text, 6, 7)) \in 1..12
       /\ DigitsValue(SubSeq(text, 9, 10)) >= 1
       /\ DigitsValue(SubSeq(text, 9, 10))
            <= DaysInMonth[DigitsValue(SubSeq(text, 6, 7))]
       /\ (Len(text) = 19 =>
             /\ DigitsValue(SubSeq(text, 12, 13)) < 24
             /\ DigitsValue(SubSeq(text, 15, 16)) < 60
             /\ DigitsValue(SubSeq(text, 18, 19)) < 62)
      THEN [ ok |-> TRUE,
             day |-> DayNumber(DigitsValue(SubSeq(text, 1, 4)),
                               DigitsValue(SubSeq(text, 6, 7)),
                               DigitsValue(SubSeq(text, 9, 10))) ]
    ELSE [ ok |-> FALSE, day |-> 0 ]

\* The second format is tried where the first raises.
FirstParsed(first, second) == IF first.ok THEN first ELSE second

ParseImportDate(text) ==
    FirstParsed(StrpTime(Prefix(text, 19), "dddd-dd-ddTdd:dd:dd"),
                StrpTime(Prefix(text, 10), "dddd-dd-dd"))

date_cols == << "created_date", "date", "incident_date" >>

NoDate == [ ok |-> FALSE, day |-> 0 ]

RECURSIVE ScanDates(_, _, _, _)
\* The loop over the date columns, from reported_at as it stands: a column
\* that is absent, empty or does not parse leaves reported_at as it is and
\* goes on; one that parses is assigned to reported_at, and then `continue`
\* goes on to the next column when it is before the cutoff and `break`
\* leaves the loop when it is not.
ScanDates(row, cols, cutoff, reported_at) ==
    IF cols = <<>> THEN reported_at
    ELSE IF Head(cols) \notin DOMAIN row \/ row[Head(cols)] = ""
      THEN ScanDates(row, Tail(cols), cutoff, reported_at)
    ELSE IF ~ParseImportDate(row[Head(cols)]).ok
      THEN ScanDates(row, Tail(cols), cutoff, reported_at)
    ELSE IF ParseImportDate(row[Head(cols)]).day < cutoff
      THEN ScanDates(row, Tail(cols), cutoff, ParseImportDate(row[Head(cols)]))
    ELSE ParseImportDate(row[Head(cols)])

\* str(row.get('agency', '') or row.get('agency_name', '')).lower() names
\* the department
IsDsnyRow(row) ==
    Contains(Lower(IF Get(row, "agency", "") # "" THEN row.agency
                   ELSE Get(row, "agency_name", "")), "dsny")
      \/ Contains(Lower(IF Get(row, "agency", "") # "" THEN row.agency
                        ELSE Get(row, "agency_name", "")), "sanitation")

ImportRequestType(complaint) ==
    IF Contains(complaint, "missed") \/ Contains(complaint, "collection")
      THEN "missed_pickup"
    ELSE IF Contains(complaint, "overflow") THEN "overflow"
    ELSE IF Contains(complaint, "dumping") \/ Contains(complaint, "illegal")
      THEN "illegal_dumping"
    ELSE "other"

ImportPriority(complaint) ==
    IF Contains(complaint, "urgent") \/ Contains(complaint, "emergency")
      THEN "urgent"
    ELSE IF Contains(complaint, "high") THEN "high"
    ELSE "normal"

\* ServiceRequest.create_request of a row that passed the filters; total is
\* the number of rows read so far.  The location of the request is left out:
\* the rows of this model carry no coordinates.
ImportedRequest(row, total, reported_at) ==
    [ request_id   |-> "SR-311-" \o Get(row, "unique_key",
                                        SubSeq(Digits, total + 1, total + 1)),
      zone_id      |-> IF Get(row, "community_board", "") # ""
                         THEN "ZONE-" \o row.community_board ELSE "UNKNOWN",
      request_type |-> ImportRequestType(Lower(Get(row, "complaint_type", ""))),
      priority     |-> ImportPriority(Lower(Get(row, "complaint_type", ""))),
      status       |-> IF Contains(Lower(Get(row, "status", "")), "open")
                         THEN "open" ELSE "closed",
      day          |-> reported_at.day ]

RowRequest(row, total, reported_at) ==
    IF ~IsDsnyRow(row) \/ ~reported_at.ok THEN <<>>
    ELSE << ImportedRequest(row, total, reported_at) >>

RECURSIVE ImportRows(_, _, _, _, _)
\* The loop over the rows from row number total + 1, with the requests
\* gathered so far.
ImportRows(rows, total, cutoff, limit, gathered) ==
    IF total >= Len(rows) \/ Len(gathered) >= limit THEN gathered
    ELSE ImportRows(rows, total + 1, cutoff, limit,
                    gathered \o RowRequest(rows[total + 1], total + 1,
                                           ScanDates(rows[total + 1], date_cols,
                                                     cutoff, NoDate)))

RECURSIVE InsertMany(_, _)
\* db.requests.insert_many(docs)
InsertMany(store, docs) ==
    IF docs = <<>> THEN store
    ELSE InsertMany(store (+) SetToBag({Head(docs)}), Tail(docs))

ImportMonthsBack == {1, 6}

ImportLimits == {0, 1, 2}

\* import_optimized_311(csv_path, months_back, limit), the whole function
ImportOptimized311 ==
    \E months_back \in ImportMonthsBack, limit \in ImportLimits :
      LET gathered == ImportRows(api_data, 0, now - 30 * months_back, limit,
                                 <<>>)
      IN  /\ op = "none"
          /\ op' = "import_optimized_311"
          /\ arg' = [ months_back |-> months_back, limit |-> limit ]
          /\ requests' = InsertMany(requests, gathered)
          /\ response' = [ kind |-> "imported", count |-> Len(gathered) ]
          /\ UNCHANGED <<api_data, collections, routes, now, database>>

ImportDateTexts ==
    { "2001-01-15T10:30:00.000", "2001-01-20", "2000-03-01T08:00:00",
      "2000-03-01", "03/01/2000", "", Absent }

ImportAgencies == { "DSNY", "Department of Sanitation", "NYPD" }

CsvRow(agency, created_date, date, incident_date) ==
    LET values == [ agency |-> agency, complaint_type |-> "Missed Collection",
                    status |-> "Open", created_date |-> created_date,
                    date |-> date, incident_date |-> incident_date ]
    IN  [ f \in { g \in DOMAIN values : values[g] # Absent } |-> values[f] ]

CsvRows ==
    { CsvRow(a, c, d, i) :
        a \in ImportAgencies, c \in ImportDateTexts,
        d \in { "2001-01-20", "2000-03-01", Absent },
        i \in { "2001-01-15T10:30:00.000", "2000-03-01", "bad", Absent } }

CsvFiles ==
    { << r >> : r \in CsvRows }
      \cup { << CsvRow("DSNY", "2001-01-20", Absent, Absent), r,
                CsvRow("DSNY", "2001-01-15T10:30:00.000", Absent, Absent) >> :
               r \in { CsvRow("DSNY", c, Absent, Absent) :
                         c \in ImportDateTexts } }
      \cup { <<>> }

InitImport ==
    /\ database = Connected
    /\ api_data \in CsvFiles
    /\ requests = EmptyStore
    /\ collections = EmptyStore
    /\ routes = EmptyStore
    /\ now \in OperationsClocks
    /\ op = "none"
    /\ arg = <<>>
    /\ response = NoResponse

NextImport == ImportOptimized311

SpecImport == InitImport /\ [][NextImport]_vars

\* C21: every service request that import_optimized_311 inserts has
\* reported_at >= cutoff_date (now minus 30 * months_back days), whatever
\* date columns the row has, and it never inserts more than limit requests.
Cex_C21_OnlyRecentRowsWithinLimit ==
    op = "import_optimized_311" =>
      /\ \A d \in BagToSet(requests) : d.day >= now - 30 * arg.months_back
      /\ BagCardinality(requests) <= arg.limit
      /\ response.count = BagCardinality(requests)

(***************************************************************************)
(* refresh_tonnage run again and again: each run fetches a response from   *)
(* the dataset and upserts the events of its records.  The dataset serves  *)
(* the same source records in an order of its own at each call.            *)
(***************************************************************************)
BrooklynJanuary ==
    [ month |-> "2001 / 01", borough |-> "Brooklyn",
      refusetonscollected |-> "300.5", refusetonsuncollected |-> "25" ]

QueensJanuary ==
    [ month |-> "2001 / 01", borough |-> "Queens",
      refusetonscollected |-> "1,250" ]

BrooklynFebruary ==
    [ month |-> "2001 / 02", borough |-> "Brooklyn",
      refusetonscollected |-> "40" ]

SourceRecords == { BrooklynJanuary, QueensJanuary, BrooklynFebruary }

\* The responses: some of the source records, each once, in any order.
SourceResponses ==
    { s \in UNION { [1..n -> SourceRecords] : n \in 1..2 } :
        \A i, j \in DOMAIN s : s[i] = s[j] => i = j }

\* The upserts and the response of a run that fetched `fetched` and built
\* `events` from it.
StoreEvents(fetched, events) ==
    /\ api_data' = fetched
    /\ collections' = UpsertCollections(collections, events)
    /\ response' = [kind |-> "refresh", status |-> "success",
                    records_fetched |-> Len(fetched),
                    records_inserted |-> Len(events)]
    /\ op' = "refresh_tonnage"
    /\ UNCHANGED <<requests, routes, now, arg, database>>

\* POST /refresh-tonnage with the response fetched by this run
RefreshTonnageAgain ==
    \E fetched \in SourceResponses :
      StoreEvents(fetched, AllTonnageEvents(fetched, 0))

InitRerun ==
    /\ database = Connected
    /\ api_data = <<>>
    /\ requests = EmptyStore
    /\ collections = EmptyStore
    /\ routes = EmptyStore
    /\ now \in OperationsClocks
    /\ op = "none"
    /\ arg = <<>>
    /\ response = NoResponse

NextRerun == RefreshTonnageAgain

SpecRerun == InitRerun /\ [][NextRerun]_vars

\* The stored events of one source record (a borough and a month) with one
\* status.
EventsOfSource(borough, day, status) ==
    { c \in BagToSet(collections) :
        c.borough = borough /\ c.day = day /\ c.status = status }

\* C22: after any sequence of refresh_tonnage runs the store holds at most
\* one 'completed' and at most one 'missed' collection event for a source
\* record (one borough and month), whatever position the record had in each
\* response.
Cex_C22_OneEventPerSourceRecord ==
    \A borough \in {"Brooklyn", "Queens"}, status \in {"completed", "missed"} :
      /\ Cardinality(EventsOfSource(borough, DayNumber(2001, 1, 1), status)) <= 1
      /\ \A c \in EventsOfSource(borough, DayNumber(2001, 1, 1), status) :
           CopiesIn(c, collections) = 1

\* The 'missed' events stored for the record at position i of the response.
MissedEvents(i) == { e \in StoredEvents(i) : e.status = "missed" }

\* The statement of C23 for a given rule of derivation and a given condition
\* under which the result may be negative: the uncollected tonnage of every
\* record is what the rule gives from the sum of the named not-collected
\* fields, the collected tonnage and the total; it is what the stored
\* 'missed' event carries; and it is negative only under the condition.
UncollectedDerivedBy(Rule(_, _, _, _), MayBeNegative(_)) ==
    op = "refresh_tonnage" =>
      \A i \in 1..Len(api_data) :
        LET record == api_data[i]
            explicit == CleanedTons(record, "refusetonsuncollected")
            collected == RatAdd(CleanedTons(record, "refusetonscollected"),
                                CleanedTons(record, "mgptonscollected"))
            total == CleanedTons(record, "totaltonsgenerated")
            has_total == RatLT(FromInt(0), total)
            claimed == Rule(explicit, collected, total, has_total)
        IN  /\ UncollectedTonnage(record) = claimed
            /\ RatLT(claimed, FromInt(0)) => MayBeNegative(explicit)
            /\ IF RatLT(FromInt(0), claimed)
                 THEN \E e \in MissedEvents(i) :
                        /\ MissedEvents(i) = {e}
                        /\ e.tonnage = RoundTo(claimed, 100)
               ELSE MissedEvents(i) = {}

Difference(total, collected) ==
    RatMax(FromInt(0), RatAdd(total, RatMul(FromInt(-1), collected)))

\* C23 as stated: uncollected tonnage is total - collected, floored at 0,
\* when both a total tonnage field and a positive collected tonnage are
\* present, and otherwise the sum of the explicitly named not-collected
\* fields; the two are never added together and the result is never
\* negative.
Cex_C23_TotalDifferenceFirst ==
    UncollectedDerivedBy(
      LAMBDA explicit, collected, total, has_total :
        IF has_total /\ RatLT(FromInt(0), collected)
          THEN Difference(total, collected)
        ELSE explicit,
      LAMBDA explicit : FALSE)

\* C23 (amended): uncollected tonnage is the sum of the explicitly named
\* not-collected fields when that sum is not 0; when it is 0, it is
\* total - collected, floored at 0, if a total > 0 and a collected tonnage
\* > 0 are present, and 0 otherwise.  The two are never added together, and
\* the result is negative only when the named fields sum to a negative
\* number (no 'missed' event is stored then).
Thm_C23_ExplicitUncollectedFirst ==
    UncollectedDerivedBy(
      LAMBDA explicit, collected, total, has_total :
        IF explicit # FromInt(0) THEN explicit
        ELSE IF has_total /\ RatLT(FromInt(0), collected)
          THEN Difference(total, collected)
        ELSE FromInt(0),
      LAMBDA explicit : RatLT(explicit, FromInt(0)))

\* C23 witness: a refreshed record with a named not-collected field of 25, a
\* total of 2000 and a collected tonnage of 1250; the 'missed' event carries
\* 25, neither 750 nor 775.
Wit_C23_ExplicitFieldBesideTotal ==
    /\ op = "refresh_tonnage"
    /\ api_data = << TonnageRecord("2001 / 01", "1,250", Absent, "25", "2,000") >>
    /\ \E e \in MissedEvents(1) : e.tonnage = FromInt(25)

\* C23 witness: with no named field the difference to the total is stored.
Wit_C23_DifferenceToTotal ==
    /\ op = "refresh_tonnage"
    /\ api_data = << TonnageRecord("2001 / 01", "1,250", Absent, Absent, "2,000") >>
    /\ \E e \in MissedEvents(1) : e.tonnage = FromInt(750)

(***************************************************************************)
(* refresh_311 against a database that may refuse batches.                 *)
(***************************************************************************)
\* POST /refresh-311, the whole handler, each bulk_write returning or
\* raising.
Refresh311Faulty ==
    \E outcomes \in [1..NumBatches(api_data) -> BatchOutcomes] :
      WriteRequests(ConvertAll(api_data), outcomes)

BatchKeys == << "1", "2", "3", "4", "5" >>

\* Responses of 0 to 5 records with distinct unique keys.
BatchResponses ==
    { [ i \in 1..n |-> RawRecord(BatchKeys[i], "Rodent", "Rat sighting") ] :
        n \in 0..5 }

\* The store before the refresh: empty, or holding an earlier version of the
\* third record.
BatchStores ==
    { EmptyStore,
      SetToBag({ [ request_id |-> "SR-API-3", request_type |-> "other",
                   priority |-> "normal", complaint_type |-> "Graffiti",
                   descriptor |-> "", location |-> [ lat |-> NoNumber, lng |-> NoNumber ],
                   day |-> 0 ] }) }

InitBatch ==
    /\ database = Connected
    /\ api_data \in BatchResponses
    /\ requests \in BatchStores
    /\ collections = EmptyStore
    /\ routes = EmptyStore
    /\ now \in OperationsClocks
    /\ op = "none"
    /\ arg = <<>>
    /\ response = NoResponse

NextBatch == Refresh311Faulty

SpecBatch == InitBatch /\ [][NextBatch]_vars

\* The number of the batch that holds the record at position i.
BatchOf(i) == (i - 1) \div batch_size + 1

\* C24: a failing bulk-write batch does not stop the refresh: every later
\* batch is still written, records_inserted counts only the documents of the
\* batches that succeeded (so it is at most the number of fetched records),
\* and the status is 'success' even if every batch failed.
Thm_C24_FailedBatchSkipped ==
    (op = "refresh_311" /\ api_data # <<>>) =>
      /\ response.status = "success"
      /\ response.records_fetched = Len(api_data)
      /\ response.records_inserted
           = Cardinality({ i \in 1..Len(api_data) : BatchOf(i) \notin arg.failed })
      /\ response.records_inserted <= Len(api_data)
      /\ \A i \in 1..Len(api_data) :
           BatchOf(i) \notin arg.failed =>
             \E d \in BagToSet(requests) :
               /\ d.request_id = "SR-API-" \o api_data[i].unique_key
               /\ d.complaint_type = "Rodent"
               /\ CopiesIn(d, requests) = 1

\* C24 witness: the first batch failed, a later one succeeded and its
\* records are stored, and fewer records were counted than fetched.
Wit_C24_LaterBatchWritten ==
    /\ op = "refresh_311"
    /\ Len(api_data) = 5
    /\ arg.failed = {1}
    /\ response.status = "success"
    /\ response.records_inserted = 5 - batch_size
    /\ \E d \in BagToSet(requests) : d.request_id = "SR-API-5"
    /\ ~\E d \in BagToSet(requests) : d.request_id = "SR-API-1"

\* The coordinate texts of the model that are numbers, with their values.
CoordinateValues ==
    [ t \in { "40.7", "90", "91", "-73.9", "-180", "-181", "0" } |->
        CASE t = "40.7" -> Rat(407, 10)
          [] t = "90" -> FromInt(90)
          [] t = "91" -> FromInt(91)
          [] t = "-73.9" -> Rat(-739, 10)
          [] t = "-180" -> FromInt(-180)
          [] t = "-181" -> FromInt(-181)
          [] t = "0" -> FromInt(0) ]

\* Both coordinates of the record are numbers in range.
ParsesInRange(record) ==
    /\ Get(record, "latitude", "") \in DOMAIN CoordinateValues
    /\ Get(record, "longitude", "") \in DOMAIN CoordinateValues
    /\ RatLE(FromInt(-90), CoordinateValues[record.latitude])
    /\ RatLE(CoordinateValues[record.latitude], FromInt(90))
    /\ RatLE(FromInt(-180), CoordinateValues[record.longitude])
    /\ RatLE(CoordinateValues[record.longitude], FromInt(180))

\* C25: a service request written by refresh_311 has GeoJSON
\* location.coordinates = [lng, lat] if and only if latitude and longitude
\* of the source record both parse as numbers with -90 <= lat <= 90 and
\* -180 <= lng <= 180; otherwise its location has lat = lng = null and
\* neither a 'coordinates' nor a 'type' key.
Thm_C25_CoordinatesIffValid ==
    op = "refresh_311" =>
      \A i \in 1..Len(api_data) :
        \A d \in BagToSet(requests) :
          d.request_id = "SR-API-" \o api_data[i].unique_key =>
            /\ "coordinates" \in DOMAIN d.location <=> ParsesInRange(api_data[i])
            /\ ParsesInRange(api_data[i]) =>
                 /\ d.location.type = "Point"
                 /\ d.location.coordinates
                      = << CoordinateValues[api_data[i].longitude],
                           CoordinateValues[api_data[i].latitude] >>
            /\ ~ParsesInRange(api_data[i]) =>
                 /\ d.location.lat = NoNumber /\ d.location.lng = NoNumber
                 /\ "type" \notin DOMAIN d.location

\* C25 witness: a latitude in range beside a longitude out of range, stored
\* without coordinates but with its address.
Wit_C25_LongitudeOutOfRange ==
    /\ op = "refresh_311"
    /\ api_data = << LocatedRecord("40.7", "-181", "1 Main St") >>
    /\ \E d \in BagToSet(requests) :
         /\ d.location.lat = NoNumber
         /\ "coordinates" \notin DOMAIN d.location
         /\ d.location.address = "1 Main St"

\* A record with both coordinates in range, stored as a GeoJSON point.
Wit_C25_PointStored ==
    /\ op = "refresh_311"
    /\ api_data = << LocatedRecord("40.7", "-73.9", Absent) >>
    /\ \E d \in BagToSet(requests) :
         d.location.coordinates = << Rat(-739, 10), Rat(407, 10) >>

(***************************************************************************)
(* The paginated lists of service requests: get_requests                   *)
(* (src/routes/requests.py) and get_requests_by_complaint_type             *)
(* (src/routes/complaints.py).  Each makes two calls to the store, find    *)
(* and then count_documents, and the store serves other clients between    *)
(* them: a list request is two steps here, and a refresh of another        *)
(* request may write between them.  The documents of the model carry       *)
(* request_type and priority, which are the filters a request may set.     *)
(***************************************************************************)
\* find(query): the stored documents that match the filters that are set
Matching(query) ==
    { d \in BagToSet(requests) :
        \A f \in DOMAIN query : query[f] = None \/ d[f] = query[f] }

\* count_documents(query)
CountDocuments(query) == SumCopies(requests, Matching(query))

\* .sort('reported_at', -1).limit(limit).skip(skip): the store skips, then
\* limits.
Page(found, limit, skip) ==
    SubSeq(SortDescendingBy(found, [d \in found |-> d.day]), skip + 1,
           IF Cardinality(found) < skip + limit THEN Cardinality(found)
           ELSE skip + limit)

ListHandlers == { "get_requests", "get_requests_by_complaint_type" }

TypeFilters == { None, "rodent", "graffiti" }

PriorityFilters == { None, "high" }

PageLimits == { 1, 2 }

PageSkips == { 0, 1 }

\* The query of a list request: complaint_type is a path parameter of the
\* second handler, which has no priority filter.
ListQueries(handler) ==
    IF handler = "get_requests"
      THEN [ request_type : TypeFilters, priority : PriorityFilters ]
    ELSE [ request_type : TypeFilters \ {None} ]

\* First step of a list request: the page is read.
FindPage ==
    \E handler \in ListHandlers, limit \in PageLimits, skip \in PageSkips :
      \E query \in ListQueries(handler) :
        /\ op = "none"
        /\ op' = "find"
        /\ arg' = [ handler |-> handler, query |-> query,
                    limit |-> limit, skip |-> skip ]
        /\ response' = [ kind |-> "page",
                         requests |-> Page(Matching(query), limit, skip),
                         count |-> Len(Page(Matching(query), limit, skip)) ]
        /\ UNCHANGED <<api_data, requests, collections, routes, now, database>>

\* Second step: the total is counted and the response returned.
CountTotal ==
    /\ op = "find"
    /\ op' = arg.handler
    /\ response' = [ kind |-> "list", requests |-> response.requests,
                     count |-> response.count,
                     total |-> CountDocuments(arg.query) ]
    /\ UNCHANGED <<api_data, requests, collections, routes, now, arg, database>>

ListedTypes == { "Rodent", "Graffiti" }

\* What the dataset serves: the two requests of the model, each with one of
\* two complaint types.
ListResponses ==
    { << RawRecord(key, ct, "") >> : key \in {"1", "2"}, ct \in ListedTypes }

\* The bulk write of a refresh_311 request served meanwhile (its response
\* goes to its own caller).
RefreshMeanwhile ==
    \E fetched \in ListResponses :
      /\ requests' = WriteBatches(requests, ConvertAll(fetched),
                                  [k \in 1..NumBatches(fetched) |-> Succeeded], 1)
      /\ UNCHANGED <<api_data, collections, routes, now, op, arg, response,
                     database>>

InitList ==
    /\ database = Connected
    /\ api_data = <<>>
    /\ requests = EmptyStore
    /\ collections = EmptyStore
    /\ routes = EmptyStore
    /\ now \in OperationsClocks
    /\ op = "none"
    /\ arg = <<>>
    /\ response = NoResponse

NextList == FindPage \/ CountTotal \/ RefreshMeanwhile

SpecList == InitList /\ [][NextList]_vars

\* C26: in every paginated list response count <= limit and count <= total,
\* also when a refresh_311 upsert that changes the type of a stored request
\* comes between the page query and the count_documents call.
Cex_C26_CountWithinLimitAndTotal ==
    op \in ListHandlers =>
      /\ response.count <= arg.limit
      /\ response.count <= response.total

(***************************************************************************)
(* The life of the database handle (src/database.py, src/app.py).  Here    *)
(* the class attributes are told apart by the client they come from:       *)
(* database.made counts the MongoClient objects constructed, the n-th is   *)
(* Client(n); database.client and database.db name the client held and the *)
(* client of the handle held; database.closed is the set of clients that   *)
(* close() was called on.                                                  *)
(***************************************************************************)
NoClient == <<>>

Client(n) == <<n>>

MaxClients == 4

Mut_NeedsConnect_ClosedToo(handle) ==
    handle.db = NoClient \/ handle.db \in handle.closed

\* get_db: `if cls._db is None`
NeedsConnect(handle) == handle.db = NoClient

\* connect(): _client is assigned before the ping, _db only after it; a
\* failed ping raises.
Connect(handle, reachable) ==
    [ database |-> [ handle EXCEPT
                       !.made = handle.made + 1,
                       !.client = Client(handle.made + 1),
                       !.db = IF reachable THEN Client(handle.made + 1)
                              ELSE handle.db ],
      raised |-> ~reachable ]

GetDb(handle, reachable) ==
    IF NeedsConnect(handle) THEN Connect(handle, reachable)
    ELSE [ database |-> handle, raised |-> FALSE ]

\* disconnect(): `if cls._client: cls._client.close()`
Disconnect(handle) ==
    IF handle.client = NoClient THEN handle
    ELSE [ handle EXCEPT !.closed = handle.closed \cup {handle.client} ]

\* A connect is possible while the bound on clients is not reached.
CanConnect(handle) == handle.made < MaxClients

\* create_app: connects, logs a failure and serves anyway.
CreateApp ==
    \E reachable \in BOOLEAN :
      /\ op = "none"
      /\ op' = "create_app"
      /\ arg' = <<>>
      /\ database' = Connect(database, reachable).database
      /\ response' = NoResponse
      /\ UNCHANGED <<api_data, requests, collections, routes, now>>

\* A caller of Database.get_db(): the handle, or the error of the connect.
GetDbCall ==
    \E reachable \in BOOLEAN :
      /\ op # "none"
      /\ NeedsConnect(database) => CanConnect(database)
      /\ op' = "get_db"
      /\ arg' = <<>>
      /\ database' = GetDb(database, reachable).database
      /\ response' = IF GetDb(database, reachable).raised THEN Raised
                     ELSE [ kind |-> "handle",
                            db |-> GetDb(database, reachable).database.db ]
      /\ UNCHANGED <<api_data, requests, collections, routes, now>>

\* GET /api/health: get_db, then a count on the handle; any exception is
\* answered 503.  Whether the count succeeds is the server's doing.
health_check ==
    \E reachable \in BOOLEAN, counted \in BOOLEAN :
      /\ op # "none"
      /\ NeedsConnect(database) => CanConnect(database)
      /\ op' = "health_check"
      /\ arg' = <<>>
      /\ database' = GetDb(database, reachable).database
      /\ response' = [ kind |-> "health",
                       status_code |->
                         IF ~GetDb(database, reachable).raised /\ counted
                         THEN 200 ELSE 503 ]
      /\ UNCHANGED <<api_data, requests, collections, routes, now>>

DisconnectCall ==
    /\ op # "none"
    /\ op' = "disconnect"
    /\ arg' = <<>>
    /\ database' = Disconnect(database)
    /\ response' = NoResponse
    /\ UNCHANGED <<api_data, requests, collections, routes, now>>

InitDatabase ==
    /\ database = [ client |-> NoClient, db |-> NoClient, closed |-> {},
                    made |-> 0 ]
    /\ api_data = <<>>
    /\ requests = EmptyStore
    /\ collections = EmptyStore
    /\ routes = EmptyStore
    /\ now \in OperationsClocks
    /\ op = "none"
    /\ arg = <<>>
    /\ response = NoResponse

NextDatabase == CreateApp \/ GetDbCall \/ health_check \/ DisconnectCall

SpecDatabase == InitDatabase /\ [][NextDatabase]_vars

\* C27: get_db() calls connect() exactly when no handle is held, so after a
\* failed connect at start-up every later get_db() retries the connection
\* and the health check answers 503 until one succeeds; disconnect() closes
\* the client and leaves the handle held, so a get_db() after disconnect()
\* returns the same closed handle and does not reconnect.
Thm_C27_HandleLifecycle ==
    [][ /\ op' \in {"get_db", "health_check"} =>
             /\ database'.made = database.made + 1 <=> database.db = NoClient
             /\ database.db # NoClient => database' = database
        /\ op' = "get_db" =>
             response' = IF database'.db = NoClient THEN Raised
                         ELSE [ kind |-> "handle", db |-> database'.db ]
        /\ (op' = "health_check" /\ database'.db = NoClient) =>
             response'.status_code = 503
        /\ op' = "disconnect" =>
             /\ database'.db = database.db
             /\ database'.client = database.client
             /\ database'.made = database.made
             /\ database.client # NoClient =>
                  database.client \in database'.closed ]_vars

\* The start-up connect failed, a later get_db connected, disconnect closed
\* the client, and the get_db after it returned the closed handle.
Wit_C27_ClosedHandleReturned ==
    /\ op = "get_db"
    /\ response # Raised
    /\ response.db = Client(2)
    /\ response.db \in database.closed
    /\ database.made = 2

(***************************************************************************)
(* The trend arithmetic of the predictions on its own: the regression of   *)
(* predict_borough_complaints over a series of daily counts, its           *)
(* projection of a recent average along a slope, and the seasonal factor   *)
(* and trend label of predict_complaint_types.                             *)
(***************************************************************************)
TrendCounts == {0, 1, 3}

MaxTrendPoints == 4

TrendSeries == UNION { [1..n -> TrendCounts] : n \in 0..MaxTrendPoints }

TrendRecentAvgs == { FromInt(0), Rat(1, 2), FromInt(1), Rat(10, 3), FromInt(40) }

TrendSlopes ==
    { FromInt(-10), FromInt(-1), Rat(-1, 2), Rat(-1, 30), FromInt(0),
      Rat(1, 7), FromInt(2) }

TrendHorizons == {0, 1, 7, 30}

\* slope of a series, as the prediction computes it
RegressTrend ==
    \E counts \in TrendSeries :
      /\ op = "none"
      /\ op' = "slope"
      /\ arg' = [ counts |-> counts ]
      /\ response' = [ kind |-> "slope", slope |-> TrendSlope(counts) ]
      /\ UNCHANGED <<api_data, requests, collections, routes, now, database>>

\* predicted_daily of a recent average, a slope and a horizon
ProjectDaily ==
    \E recent_avg \in TrendRecentAvgs, slope \in TrendSlopes,
       days_ahead \in TrendHorizons :
      /\ op = "none"
      /\ op' = "predicted_daily"
      /\ arg' = [ recent_avg |-> recent_avg, slope |-> slope,
                  days_ahead |-> days_ahead ]
      /\ response' = [ kind |-> "predicted_daily",
                       predicted_daily |->
                         PredictedDaily(recent_avg, slope, days_ahead) ]
      /\ UNCHANGED <<api_data, requests, collections, routes, now, database>>

SeasonalTypes == DOMAIN SeasonalPatterns \cup { "graffiti" }

\* seasonal_factor and trend of a complaint type between two months
LabelSeasonalTrend ==
    \E complaint_type \in SeasonalTypes, current_month \in 1..12,
       target_month \in 1..12 :
      /\ op = "none"
      /\ op' = "seasonal_trend"
      /\ arg' = [ complaint_type |-> complaint_type,
                  current_month |-> current_month,
                  target_month |-> target_month ]
      /\ response' =
           [ kind |-> "seasonal_trend",
             seasonal_factor |->
               SeasonalFactor(complaint_type, current_month, target_month),
             trend |->
               SeasonalTrend(SeasonalFactor(complaint_type, current_month,
                                            target_month)) ]
      /\ UNCHANGED <<api_data, requests, collections, routes, now, database>>

InitTrend ==
    /\ database = Connected
    /\ api_data = <<>>
    /\ requests = EmptyStore
    /\ collections = EmptyStore
    /\ routes = EmptyStore
    /\ now = 0
    /\ op = "none"
    /\ arg = <<>>
    /\ response = NoResponse

NextTrend == RegressTrend \/ ProjectDaily \/ LabelSeasonalTrend

SpecTrend == InitTrend /\ [][NextTrend]_vars

\* C28: for every slope, every horizon >= 0 and every recent_avg >= 0 the
\* predicted daily rate is at least half of recent_avg, and it is
\* recent_avg plus the trend adjustment capped at -0.5 * recent_avg: the
\* floor of 10% of recent_avg never changes the result.
Thm_C28_HalfOfRecentAverage ==
    op = "predicted_daily" =>
      LET half == RatMul(Rat(1, 2), arg.recent_avg)
          adjustment == RatMul(arg.slope, Rat(arg.days_ahead, 2))
          capped == IF RatLT(adjustment, RatMul(FromInt(-1), half))
                    THEN RatMul(FromInt(-1), half) ELSE adjustment
      IN  /\ RatLE(half, response.predicted_daily)
          /\ response.predicted_daily = RatAdd(arg.recent_avg, capped)

\* The cap binds: the trend would take more than half of a positive recent
\* average, and exactly half of it is predicted.
Wit_C28_CapBinds ==
    /\ op = "predicted_daily"
    /\ arg.recent_avg = Rat(10, 3)
    /\ arg.slope = FromInt(-1)
    /\ arg.days_ahead = 7
    /\ response.predicted_daily = Rat(5, 3)

\* numerator of the least-squares slope: n * sum_xy - sum_x * sum_y
SlopeNumerator(counts) ==
    LET n == Len(counts)
    IN  n * SumOver([i \in 1..n |-> (i - 1) * counts[i]], 1..n)
          - SumOver([i \in 1..n |-> i - 1], 1..n) * SeqSum(counts)

\* C30: for the index values 0..n-1 the regression denominator
\* n * sum(x^2) - (sum x)^2 is strictly positive for every n >= 2 (it is
\* n^2 (n^2 - 1) / 12), so the zero-denominator branch is never taken: the
\* slope is the least-squares quotient whenever there are two points or
\* more, and it is 0 only for fewer than 2 points or a zero quotient.
Thm_C30_DenominatorPositive ==
    op = "slope" =>
      LET n == Len(arg.counts)
      IN  /\ \A m \in 2..60 :
               /\ RegressionDenominator(m) > 0
               /\ 12 * RegressionDenominator(m) = m * m * (m * m - 1)
          /\ n >= 2 =>
               response.slope = Rat(SlopeNumerator(arg.counts),
                                    RegressionDenominator(n))
          /\ response.slope = FromInt(0) <=>
               (n < 2 \/ SlopeNumerator(arg.counts) = 0)

\* Three points that are not constant and whose least-squares slope is 0.
Wit_C30_ZeroSlopeOfUnevenSeries ==
    /\ op = "slope"
    /\ arg.counts = <<1, 3, 1>>
    /\ response.slope = FromInt(0)

\* C29: for every complaint type and every (current_month, target_month)
\* the trend label is 'increasing' iff the seasonal factor is above 1.3 and
\* otherwise 'stable'; 'decreasing' is unreachable because no seasonal
\* factor is below 0.8, and rodent, whose peak factor is 1.3, is never
\* labelled 'increasing'.
Thm_C29_IncreasingOrStable ==
    op = "seasonal_trend" =>
      /\ response.trend = IF RatLT(Rat(13, 10), response.seasonal_factor)
                          THEN "increasing" ELSE "stable"
      /\ response.trend # "decreasing"
      /\ ~RatLT(response.seasonal_factor, Rat(8, 10))
      /\ arg.complaint_type = "rodent" =>
           /\ response.trend = "stable"
           /\ arg.target_month \in {9, 10, 11} =>
                response.seasonal_factor = Rat(13, 10)

\* Rodent predicted for October, a peak month: the factor is 1.3 itself and
\* the label is 'stable'.
Wit_C29_RodentPeakStable ==
    /\ op = "seasonal_trend"
    /\ arg.complaint_type = "rodent"
    /\ arg.target_month = 10
    /\ response.seasonal_factor = Rat(13, 10)
    /\ response.trend = "stable"

====
